---- MODULE Spec2Model ----
(***************************************************************************)
(* Model of the document-to-FAQ pipeline of knowledge-assistant:           *)
(*   - LLMOutputParser and FAQPostProcessor (src/modules/postprocessors.py)*)
(*   - PDFProcessor._split_into_chunks      (src/modules/pdf_processor.py) *)
(*                                                                         *)
(* Text is a sequence of characters.  An ASCII character is the one-       *)
(* character string of itself; any other character is the string "U+XXXX"  *)
(* of its code point (e.g. "U+FF1F" is the full-width question mark and    *)
(* "U+3002" the ideographic full stop).                                    *)
(***************************************************************************)
EXTENDS Integers, Sequences, FiniteSets, TLC

VARIABLES
    pc,            \* position of the operation under study: "input" before the call
                   \* and "processed", "deduplicated", "parsed" or "chunked" after
                   \* it; "normalize" while a normalisation is applied repeatedly
    faqs,          \* FAQPostProcessor.process / _remove_duplicates: argument faqs
    source_type,   \* FAQPostProcessor.process: argument source_type
    source_url,    \* FAQPostProcessor.process: argument source_url
    final_faqs,    \* FAQPostProcessor.process / _remove_duplicates: returned list
    question,      \* _improve_question: the argument of the first application
    answer,        \* _improve_answer: the argument of the first application
    q_hist,        \* results of successive applications of _improve_question
    a_hist,        \* results of successive applications of _improve_answer
    llm_response,  \* LLMOutputParser.parse_faq_response: argument llm_response
    json_text,     \* its local json_text when json.loads is called
    parse_out,     \* its outcome: [raised, result] (an exception reached the
                   \* caller, or the list returned)
    page_chunks,   \* PDFProcessor._split_into_chunks: argument page_chunks
    max_chunk_size,\* PDFProcessor._split_into_chunks: argument max_chunk_size
    result_chunks, \* PDFProcessor._split_into_chunks: returned list
    input_text,    \* PDFTextProcessor.process / SlackConversationProcessor.process:
                   \* argument text / conversation_text
    processed_result, \* their outcome: [raised, failed, enhanced_text], and for the
                   \* Slack processor structured_messages, qa_pairs, participants
    chunks,        \* update_from_google_drive: chunks of the file
                   \* (update_from_slack: conversations)
    chunk_idx,     \* position of "for chunk in chunks" (1-based)
    summary,       \* summary of the current chunk (generate_summary)
    source_id,     \* generate_faqs_from_text: argument source_id
    total_tokens_used, \* FAQGenerator.total_tokens_used
    reported_tokens, \* the sum of response.usage.total_tokens over the responses
                   \* the completion service has returned (kept for the
                   \* comparison with total_tokens_used; no variable of the code)
    total_faqs,    \* update_from_google_drive / update_from_slack: total_faqs
    in_flight,     \* requests sent to the completion service and not yet
                   \* answered: <<chunk index, "summary" or "faq">>
    uploaded,      \* documents handed to upload_documents so far
    log,           \* one record per finished chunk: requests issued, whether
                   \* the FAQ extraction failed, records produced, upload count
    processed_questions, \* _remove_duplicates: the dict processed_questions, as
                   \* the sequence of its items [q, idx] in insertion order
    unique_faqs,   \* _remove_duplicates: the list unique_faqs
    faq_idx,       \* position of "for faq in faqs" in _remove_duplicates (1-based)
    files,         \* update_from_google_drive: the list returned by list_files
    file_idx,      \* position of "for file in files" (1-based)
    file_path,     \* file_path of the file being processed (0: none yet)
    temp_files,    \* the temporary files download_file has created and that
                   \* have not been deleted
    obtained_files \* the temporary files whose name download_file has returned

postVars == <<faqs, source_type, source_url, final_faqs>>
normVars == <<question, answer, q_hist, a_hist>>
parseVars == <<llm_response, json_text, parse_out>>
chunkVars == <<page_chunks, max_chunk_size, result_chunks>>
structVars == <<input_text, processed_result>>
genVars ==
    <<chunks, chunk_idx, summary, source_id, total_tokens_used, reported_tokens,
      total_faqs, in_flight, uploaded, log>>
loopVars == <<processed_questions, unique_faqs, faq_idx>>
driveVars == <<files, file_idx, file_path, temp_files, obtained_files>>
auxVars == <<loopVars, driveVars>>
vars == <<pc, postVars, normVars, parseVars, chunkVars, structVars, genVars, auxVars>>

-----------------------------------------------------------------------------
(* Bounds of the model *)

\* longest list handed to FAQPostProcessor.process
MaxFaqs == 2

\* most files in the Drive folder
MaxFiles == 3

\* longest list handed to FAQPostProcessor._remove_duplicates when its loop
\* is followed iteration by iteration
MaxLoopFaqs == 3
\* how many times in a row a normalisation function is applied
MaxApplications == 2
\* length of the longest question handed to _remove_duplicates
MaxQuestionChars == 12
\* number of pieces a model response is built from
MaxSegments == 3
\* length of a document (its pages and the breaks between them)
MaxDocLen == 6
\* largest max_chunk_size
MaxChunkSize == 4
\* length of the page of two paragraphs chunked with the default max_chunk_size
ExamplePageLen == 1200
\* number of chunks (conversations) of a batch
MaxChunks == 2
\* largest response.usage.total_tokens of one completion
MaxUsage == 1
\* most parts of a text handed to a text processor
MaxTextParts == 3

-----------------------------------------------------------------------------
(* Text helpers: what the Python str / re operations used by the code do *)

Rep(c, n) == [i \in 1..n |-> c]

\* characters str.strip() removes (space, tab, newline, carriage return,
\* ideographic space U+3000)
IsSpace(c) == c \in {" ", "\t", "\n", "\r", "U+3000"}

Min(S) == CHOOSE x \in S : \A y \in S : x <= y
Max(S) == CHOOSE x \in S : \A y \in S : x >= y

\* str.strip()
Strip(s) ==
    LET keep == {i \in 1..Len(s) : ~IsSpace(s[i])}
    IN  IF keep = {} THEN <<>> ELSE SubSeq(s, Min(keep), Max(keep))

\* s.endswith(c) for a one-character c
EndsWith(s, c) == s # <<>> /\ s[Len(s)] = c

\* s.startswith(p)
StartsWith(s, p) == Len(p) <= Len(s) /\ SubSeq(s, 1, Len(p)) = p

\* sub in s
Contains(s, sub) ==
    \E i \in 0..(Len(s) - Len(sub)) : SubSeq(s, i + 1, i + Len(sub)) = sub

LowerLetters == <<"a","b","c","d","e","f","g","h","i","j","k","l","m",
                  "n","o","p","q","r","s","t","u","v","w","x","y","z">>
UpperLetters == <<"A","B","C","D","E","F","G","H","I","J","K","L","M",
                  "N","O","P","Q","R","S","T","U","V","W","X","Y","Z">>
Digits == {"0","1","2","3","4","5","6","7","8","9"}

LetterIndex(letters, c) == CHOOSE i \in 1..Len(letters) : letters[i] = c
IsIn(letters, c) == \E i \in 1..Len(letters) : letters[i] = c

\* c.islower(), c.upper(), c.lower() on the characters of the model
IsLower(c) == IsIn(LowerLetters, c)
UpperChar(c) == IF IsIn(LowerLetters, c) THEN UpperLetters[LetterIndex(LowerLetters, c)] ELSE c
LowerChar(c) == IF IsIn(UpperLetters, c) THEN LowerLetters[LetterIndex(UpperLetters, c)] ELSE c
\* s.lower()
Lower(s) == [i \in 1..Len(s) |-> LowerChar(s[i])]

\* the characters of the model inside the regex class [a-zA-Z0-9]
IsAsciiAlnum(c) == IsIn(LowerLetters, c) \/ IsIn(UpperLetters, c) \/ c \in Digits

\* the characters of the model inside the ranges U+3041..U+3093 (hiragana),
\* U+30A1..U+30F3 (katakana), U+4E00..U+9FAF (kanji) and U+3005 of the regex
\* class of _improve_answer; U+3002, U+3001, U+30FC, U+FF1F are outside it
Hiragana ==
    {"U+3044", "U+3046", "U+3048", "U+304B", "U+304C", "U+304F", "U+3053",
     "U+3055", "U+3057", "U+3059", "U+305B", "U+305C", "U+305F", "U+3060",
     "U+3064", "U+3066", "U+3067", "U+3069", "U+306A", "U+306B", "U+306E",
     "U+306F", "U+307E", "U+3089", "U+308A", "U+308B", "U+308C", "U+3092",
     "U+3093"}
Katakana ==
    {"U+30A2", "U+30AD", "U+30B9", "U+30BB", "U+30C3", "U+30C8", "U+30C9",
     "U+30CB", "U+30D1", "U+30DE", "U+30E1", "U+30E5", "U+30EA", "U+30EB",
     "U+30EC", "U+30EF", "U+30F3"}
Kanji ==
    {"U+4E0D", "U+4F1A", "U+4F55", "U+5143", "U+53C2", "U+554F", "U+56DE",
     "U+5F97", "U+601D", "U+65B9", "U+660E", "U+6CD5", "U+7167", "U+7A0B",
     "U+7B54", "U+7D30", "U+8003", "U+898B", "U+8A71", "U+8A73", "U+8CEA",
     "U+904E"}
IsJapanese(c) == c \in Hiragana \cup Katakana \cup Kanji \cup {"U+3005"}

-----------------------------------------------------------------------------
(* FAQPostProcessor._improve_question *)

\* '？' (full-width question mark)
FullWidthQuestionMark == "U+FF1F"
\* '。'
IdeographicFullStop == "U+3002"

\* "不明な質問"
UnknownQuestion == <<"U+4E0D", "U+660E", "U+306A", "U+8CEA", "U+554F">>

\* ["どう", "なぜ", "どこ", "いつ", "だれ", "何", "ですか"]
Interrogatives ==
    { <<"U+3069", "U+3046">>, <<"U+306A", "U+305C">>, <<"U+3069", "U+3053">>,
      <<"U+3044", "U+3064">>, <<"U+3060", "U+308C">>, <<"U+4F55">>,
      <<"U+3067", "U+3059", "U+304B">> }

\* len(improved) > 100
MaxQuestionLen == 100
\* improved[:97] + '...'
TruncatedLen == 97

\* the characters of the regex class [.;,?!]
ClausePunct == {".", ";", ",", "?", "!"}

\* re.search(r'^[^.;,?!]+[.;,?!]', s): the greedy run of non-punctuation
\* characters from the start (at least one) followed by one punctuation
\* character; the match ends at the first punctuation character of s.
\* Returns the matched text, or <<>> when there is no match.
FirstClause(s) ==
    LET ps == {i \in 1..Len(s) : s[i] \in ClausePunct}
    IN  IF ps = {} \/ Min(ps) = 1 THEN <<>> ELSE SubSeq(s, 1, Min(ps))

ImproveQuestion(q) ==
    IF q = <<>> \/ Strip(q) = <<>>
    THEN UnknownQuestion
    ELSE
      LET stripped == Strip(q)
          marked ==
            IF ~EndsWith(stripped, "?") /\ ~EndsWith(stripped, FullWidthQuestionMark)
            THEN IF \E w \in Interrogatives : Contains(Lower(stripped), w)
                 THEN Append(stripped, FullWidthQuestionMark)
                 ELSE Append(stripped, "?")
            ELSE stripped
          shortened ==
            IF Len(marked) > MaxQuestionLen
            THEN IF FirstClause(marked) # <<>>
                 THEN FirstClause(marked)
                 ELSE SubSeq(marked, 1, TruncatedLen) \o <<".", ".", ".">>
            ELSE marked
      IN  IF shortened # <<>> /\ IsLower(shortened[1])
          THEN <<UpperChar(shortened[1])>> \o Tail(shortened)
          ELSE shortened

-----------------------------------------------------------------------------
(* FAQPostProcessor._improve_answer *)

\* "回答が見つかりませんでした。"
NoAnswerFound ==
    <<"U+56DE", "U+7B54", "U+304C", "U+898B", "U+3064", "U+304B", "U+308A",
      "U+307E", "U+305B", "U+3093", "U+3067", "U+3057", "U+305F", "U+3002">>

\* the alternatives of (はい|いいえ|Yes|No), in the order the regex tries them
Affirmations ==
    << <<"U+306F", "U+3044">>, <<"U+3044", "U+3044", "U+3048">>,
       <<"Y", "e", "s">>, <<"N", "o">> >>

\* (、|\.|,|\s)
IsAffirmationSep(c) == c \in {"U+3001", ".", ","} \/ IsSpace(c)

\* re.sub(r'^(はい|いいえ|Yes|No)(、|\.|,|\s)', '', s): one match at most, at
\* the start of the text; no alternative is a prefix of another
StripAffirmation(s) ==
    LET hits == {k \in 1..Len(Affirmations) :
                    /\ StartsWith(s, Affirmations[k])
                    /\ Len(s) > Len(Affirmations[k])
                    /\ IsAffirmationSep(s[Len(Affirmations[k]) + 1])}
    IN  IF hits = {} THEN s
        ELSE SubSeq(s, Len(Affirmations[Min(hits)]) + 2, Len(s))

\* ["参照", "詳細は", "マニュアル", "ドキュメント", "スレッド", "会話"]
SourceRefTerms ==
    { <<"U+53C2", "U+7167">>, <<"U+8A73", "U+7D30", "U+306F">>,
      <<"U+30DE", "U+30CB", "U+30E5", "U+30A2", "U+30EB">>,
      <<"U+30C9", "U+30AD", "U+30E5", "U+30E1", "U+30F3", "U+30C8">>,
      <<"U+30B9", "U+30EC", "U+30C3", "U+30C9">>, <<"U+4F1A", "U+8A71">> }

\* "ドキュメント" if source_type == "pdf" else "Slack会話"
SourceTypeJa(st) ==
    IF st = "pdf"
    THEN <<"U+30C9", "U+30AD", "U+30E5", "U+30E1", "U+30F3", "U+30C8">>
    ELSE <<"S", "l", "a", "c", "k", "U+4F1A", "U+8A71">>

\* f"\n\n詳細については元の{source_type_ja}を参照してください。"
SourceRefSentence(st) ==
    <<"\n", "\n", "U+8A73", "U+7D30", "U+306B", "U+3064", "U+3044", "U+3066",
      "U+306F", "U+5143", "U+306E">>
    \o SourceTypeJa(st)
    \o <<"U+3092", "U+53C2", "U+7167", "U+3057", "U+3066", "U+304F", "U+3060",
         "U+3055", "U+3044", "U+3002">>

\* source_url is a text; the empty text stands for both None and "" (the code
\* only tests its truth value)
ImproveAnswer(a, st, url) ==
    IF a = <<>> \/ Strip(a) = <<>>
    THEN NoAnswerFound
    ELSE
      LET unprefixed == StripAffirmation(Strip(a))
          ended ==
            IF ~EndsWith(unprefixed, ".") /\ ~EndsWith(unprefixed, IdeographicFullStop)
            THEN IF unprefixed # <<>> /\ IsAsciiAlnum(unprefixed[Len(unprefixed)])
                 THEN Append(unprefixed, ".")
                 ELSE IF unprefixed # <<>> /\ IsJapanese(unprefixed[Len(unprefixed)])
                      THEN Append(unprefixed, IdeographicFullStop)
                      ELSE unprefixed
            ELSE unprefixed
      IN  IF url # <<>> /\ ~(\E ref \in SourceRefTerms : Contains(ended, ref))
          THEN ended \o SourceRefSentence(st)
          ELSE ended

-----------------------------------------------------------------------------
(* FAQPostProcessor._calculate_similarity *)

\* get_ngrams(text, n=3)
NGramSize == 3

\* set(get_ngrams(text)): the set of the 3-character windows of the text
NGrams(text) ==
    {SubSeq(text, i, i + NGramSize - 1) : i \in 1..(Len(text) - NGramSize + 1)}

\* intersection / union as the fraction <<numerator, denominator>>;
\* 0 (that is <<0, 1>>) when the union is empty
CalculateSimilarity(text1, text2) ==
    LET ngrams1 == NGrams(text1)
        ngrams2 == NGrams(text2)
        intersection == Cardinality(ngrams1 \cap ngrams2)
        union == Cardinality(ngrams1 \cup ngrams2)
    IN  IF union = 0 THEN <<0, 1>> ELSE <<intersection, union>>

\* the threshold 0.7 of "similarity > 0.7", as the fraction 7/10
ThresholdNum == 7
ThresholdDen == 10

\* fraction x is strictly greater than fraction y (denominators positive)
FracGreater(x, y) == x[1] * y[2] > y[1] * x[2]

\* a variant of AboveThreshold: the comparison written as similarity >= 0.7
AtOrAboveThreshold(sim) == ~FracGreater(<<ThresholdNum, ThresholdDen>>, sim)

\* similarity > 0.7.  The quotient of two small integers that equals 7/10 is
\* rounded to the same double as the literal 0.7, so the float comparison
\* agrees with the exact one.
AboveThreshold(sim) == FracGreater(sim, <<ThresholdNum, ThresholdDen>>)

-----------------------------------------------------------------------------
(* FAQPostProcessor._remove_duplicates *)

\* processed_questions is a dict: here the sequence of its items [q, idx] in
\* insertion order (the order .keys() iterates in)
KeyIndex(processed, q) ==
    LET hits == {k \in 1..Len(processed) : processed[k].q = q}
    IN  IF hits = {} THEN 0 ELSE Min(hits)

\* processed_questions[q] = idx : a new key is appended, an existing key keeps
\* its place and gets the new value
DictSet(processed, q, idx) ==
    IF KeyIndex(processed, q) = 0
    THEN Append(processed, [q |-> q, idx |-> idx])
    ELSE [processed EXCEPT ![KeyIndex(processed, q)].idx = idx]

\* a variant of BestMatch: the loop over the keys ends after its first
\* iteration, so that the candidate is compared with one key only
BestMatchFirstKey(q, processed, k, acc) ==
    IF k > Len(processed) THEN acc
    ELSE
      LET similarity == CalculateSimilarity(q, processed[k].q)
      IN  IF AboveThreshold(similarity)
          THEN IF FracGreater(similarity, acc.highest_similarity)
               THEN [is_duplicate |-> TRUE, best_match |-> k,
                     highest_similarity |-> similarity]
               ELSE [acc EXCEPT !.is_duplicate = TRUE]
          ELSE acc

\* a variant of BestMatch: "similarity >= highest_similarity", so that the
\* latest of several equally similar keys is taken
RECURSIVE BestMatchLatest(_, _, _, _)
BestMatchLatest(q, processed, k, acc) ==
    IF k > Len(processed) THEN acc
    ELSE
      LET similarity == CalculateSimilarity(q, processed[k].q)
          next ==
            IF AboveThreshold(similarity)
            THEN IF ~FracGreater(acc.highest_similarity, similarity)
                 THEN [is_duplicate |-> TRUE, best_match |-> k,
                       highest_similarity |-> similarity]
                 ELSE [acc EXCEPT !.is_duplicate = TRUE]
            ELSE acc
      IN  BestMatchLatest(q, processed, k + 1, next)

\* the inner loop over processed_questions.keys(), from key k on: returns
\* [is_duplicate, best_match, highest_similarity], best_match being the
\* position of the key in processed_questions, 0 for None
RECURSIVE BestMatch(_, _, _, _)
BestMatch(q, processed, k, acc) ==
    IF k > Len(processed) THEN acc
    ELSE
      LET similarity == CalculateSimilarity(q, processed[k].q)
          next ==
            IF AboveThreshold(similarity)
            THEN IF FracGreater(similarity, acc.highest_similarity)
                 THEN [is_duplicate |-> TRUE, best_match |-> k,
                       highest_similarity |-> similarity]
                 ELSE [acc EXCEPT !.is_duplicate = TRUE]
            ELSE acc
      IN  BestMatch(q, processed, k + 1, next)

\* a variant of DedupStep: a new record is put at the front of unique_faqs
\* ("unique_faqs.insert(0, faq)") instead of at its end
DedupStepFront(st, faq) ==
    LET m == BestMatch(faq.question, st.processed_questions, 1,
                       [is_duplicate |-> FALSE, best_match |-> 0,
                        highest_similarity |-> <<0, 1>>])
    IN  IF /\ m.is_duplicate
           /\ m.best_match # 0
           /\ st.processed_questions[m.best_match].q # <<>>
        THEN
          LET existing_idx == st.processed_questions[m.best_match].idx
          IN  IF Len(faq.answer) > Len(st.unique_faqs[existing_idx].answer)
              THEN [st EXCEPT !.unique_faqs[existing_idx].answer = faq.answer]
              ELSE st
        ELSE
          [processed_questions |->
               DictSet([k \in 1..Len(st.processed_questions) |->
                            [st.processed_questions[k] EXCEPT !.idx = @ + 1]],
                       faq.question, 1),
           unique_faqs |-> <<faq>> \o st.unique_faqs]

\* one iteration of "for faq in faqs" on the loop state
\* [processed_questions, unique_faqs]
DedupStep(st, faq) ==
    LET m == BestMatch(faq.question, st.processed_questions, 1,
                       [is_duplicate |-> FALSE, best_match |-> 0,
                        highest_similarity |-> <<0, 1>>])
    IN  IF /\ m.is_duplicate
           /\ m.best_match # 0
           /\ st.processed_questions[m.best_match].q # <<>>
        THEN
          LET existing_idx == st.processed_questions[m.best_match].idx
          IN  IF Len(faq.answer) > Len(st.unique_faqs[existing_idx].answer)
              THEN [st EXCEPT !.unique_faqs[existing_idx].answer = faq.answer]
              ELSE st
        ELSE
          \* indices are 1-based here: len(unique_faqs) before the append is
          \* the 0-based index of the appended record
          [processed_questions |->
               DictSet(st.processed_questions, faq.question, Len(st.unique_faqs) + 1),
           unique_faqs |-> Append(st.unique_faqs, faq)]

RECURSIVE DedupLoop(_, _, _)
DedupLoop(fs, i, st) ==
    IF i > Len(fs) THEN st ELSE DedupLoop(fs, i + 1, DedupStep(st, fs[i]))

RemoveDuplicates(fs) ==
    IF fs = <<>> THEN <<>>
    ELSE DedupLoop(fs, 1, [processed_questions |-> <<>>, unique_faqs |-> <<>>]).unique_faqs

-----------------------------------------------------------------------------
(* FAQPostProcessor.process *)

\* the loop "for faq in faqs": entries whose question or answer is the empty
\* text are skipped, the others are normalised.  A faq is a record with the
\* fields question and answer (a missing key reads as "" through .get).
RECURSIVE ProcessedFaqs(_, _, _, _)
ProcessedFaqs(fs, i, st, url) ==
    IF i > Len(fs) THEN <<>>
    ELSE
      LET faq == fs[i]
          rest == ProcessedFaqs(fs, i + 1, st, url)
      IN  IF faq.question = <<>> \/ faq.answer = <<>>
          THEN rest
          ELSE << [faq EXCEPT !.question = ImproveQuestion(faq.question),
                              !.answer = ImproveAnswer(faq.answer, st, url)] >>
               \o rest

Process(fs, st, url) ==
    IF fs = <<>> THEN <<>> ELSE RemoveDuplicates(ProcessedFaqs(fs, 1, st, url))

-----------------------------------------------------------------------------
(* json.loads, on the texts of the model: arrays, objects, strings without  *)
(* backslash escapes, unsigned integers, null / true / false                *)

\* the backtick (it cannot be written inside a string of this language)
Backtick == "U+0060"

OccursAt(s, sub, i) ==
    i >= 1 /\ i + Len(sub) - 1 <= Len(s) /\ SubSeq(s, i, i + Len(sub) - 1) = sub
Occurrences(s, sub) == {i \in 1..Len(s) : OccursAt(s, sub, i)}

\* JSON whitespace
IsJsonSpace(c) == c \in {" ", "\t", "\n", "\r"}
\* the first position from i on that holds no JSON whitespace (Len(s)+1 at the end)
RECURSIVE SkipJsonSpace(_, _)
SkipJsonSpace(s, i) ==
    IF i <= Len(s) /\ IsJsonSpace(s[i]) THEN SkipJsonSpace(s, i + 1) ELSE i

\* a JSON value: type is "array" (items), "object" (members, the items of the
\* dict in insertion order), "string" or "number" (text), "null", "true", "false"
JVal(type, text, items, members) ==
    [type |-> type, text |-> text, items |-> items, members |-> members]

\* a decoding step: failed (json.JSONDecodeError), or the value and the
\* position after it
JFail == [ok |-> FALSE, val |-> JVal("none", <<>>, <<>>, <<>>), pos |-> 0]
JOk(v, p) == [ok |-> TRUE, val |-> v, pos |-> p]

\* characters a JSON string may not contain unescaped
IsControl(c) == c \in {"\n", "\t", "\r"}

\* a string literal whose opening quote is at i
ParseString(s, i) ==
    LET closes == {j \in (i + 1)..Len(s) : s[j] = "\""}
    IN  IF closes = {} THEN JFail
        ELSE LET body == SubSeq(s, i + 1, Min(closes) - 1)
             IN  IF \E k \in 1..Len(body) : IsControl(body[k])
                 THEN JFail
                 ELSE JOk(JVal("string", body, <<>>, <<>>), Min(closes) + 1)

\* an integer at i: 0, or a non-zero digit and the digits after it
ParseNumber(s, i) ==
    LET stop == Min({j \in (i + 1)..(Len(s) + 1) : j = Len(s) + 1 \/ s[j] \notin Digits})
        last == IF s[i] = "0" THEN i + 1 ELSE stop
    IN  JOk(JVal("number", SubSeq(s, i, last - 1), <<>>, <<>>), last)

\* d[key] = value on the items of a dict
DictPut(members, key, value) ==
    LET hits == {k \in 1..Len(members) : members[k].key = key}
    IN  IF hits = {} THEN Append(members, [key |-> key, value |-> value])
        ELSE [members EXCEPT ![Min(hits)].value = value]

RECURSIVE ParseValue(_, _)
RECURSIVE ParseElements(_, _, _)
RECURSIVE ParseMembers(_, _, _)

\* the value that starts at position i (scan_once)
ParseValue(s, i) ==
    IF i > Len(s) THEN JFail
    ELSE IF s[i] = "\"" THEN ParseString(s, i)
    ELSE IF s[i] = "{" THEN
        LET j == SkipJsonSpace(s, i + 1)
        IN  IF j <= Len(s) /\ s[j] = "}"
            THEN JOk(JVal("object", <<>>, <<>>, <<>>), j + 1)
            ELSE ParseMembers(s, j, <<>>)
    ELSE IF s[i] = "[" THEN
        LET j == SkipJsonSpace(s, i + 1)
        IN  IF j <= Len(s) /\ s[j] = "]"
            THEN JOk(JVal("array", <<>>, <<>>, <<>>), j + 1)
            ELSE ParseElements(s, j, <<>>)
    ELSE IF OccursAt(s, <<"n", "u", "l", "l">>, i) THEN JOk(JVal("null", <<>>, <<>>, <<>>), i + 4)
    ELSE IF OccursAt(s, <<"t", "r", "u", "e">>, i) THEN JOk(JVal("true", <<>>, <<>>, <<>>), i + 4)
    ELSE IF OccursAt(s, <<"f", "a", "l", "s", "e">>, i) THEN JOk(JVal("false", <<>>, <<>>, <<>>), i + 5)
    ELSE IF s[i] \in Digits THEN ParseNumber(s, i)
    ELSE JFail

\* the elements of an array from position i on (an element is expected at i)
ParseElements(s, i, acc) ==
    LET v == ParseValue(s, i)
        j == SkipJsonSpace(s, v.pos)
    IN  IF ~v.ok \/ j > Len(s) THEN JFail
        ELSE IF s[j] = "]" THEN JOk(JVal("array", <<>>, Append(acc, v.val), <<>>), j + 1)
        ELSE IF s[j] = "," THEN ParseElements(s, SkipJsonSpace(s, j + 1), Append(acc, v.val))
        ELSE JFail

\* the members of an object from position i on (a key is expected at i)
ParseMembers(s, i, acc) ==
    IF i > Len(s) \/ s[i] # "\"" THEN JFail
    ELSE
      LET k == ParseString(s, i)
          c == SkipJsonSpace(s, k.pos)
      IN  IF ~k.ok \/ c > Len(s) \/ s[c] # ":" THEN JFail
          ELSE
            LET v == ParseValue(s, SkipJsonSpace(s, c + 1))
                j == SkipJsonSpace(s, v.pos)
                put == DictPut(acc, k.val.text, v.val)
            IN  IF ~v.ok \/ j > Len(s) THEN JFail
                ELSE IF s[j] = "}" THEN JOk(JVal("object", <<>>, <<>>, put), j + 1)
                ELSE IF s[j] = "," THEN ParseMembers(s, SkipJsonSpace(s, j + 1), put)
                ELSE JFail

\* json.loads(s): one value, whitespace around it allowed, nothing else
JsonLoads(s) ==
    LET v == ParseValue(s, SkipJsonSpace(s, 1))
    IN  IF v.ok /\ SkipJsonSpace(s, v.pos) = Len(s) + 1 THEN v ELSE JFail

-----------------------------------------------------------------------------
(* LLMOutputParser.extract_json_from_markdown *)

\* "```" and "json"
Fence == <<Backtick, Backtick, Backtick>>
JsonTag == <<"j", "s", "o", "n">>

\* the first position from i on that holds no whitespace (regex \s*, greedy)
RECURSIVE SkipSpace(_, _)
SkipSpace(s, i) ==
    IF i <= Len(s) /\ IsSpace(s[i]) THEN SkipSpace(s, i + 1) ELSE i

\* re.findall(r'```(?:json)?\s*([\s\S]*?)\s*```', text)[0]: the match starts
\* at the first fence; the tag and the whitespace after it are consumed
\* greedily; the group is the shortest text followed by whitespace and a
\* fence.  found is FALSE when findall returns no match.
FirstFencedBlock(text) ==
    LET opens == Occurrences(text, Fence)
    IN  IF opens = {} THEN [found |-> FALSE, group |-> <<>>]
        ELSE
          LET p == Min(opens)
              afterTag == IF OccursAt(text, JsonTag, p + 3) THEN p + 7 ELSE p + 3
              c0 == SkipSpace(text, afterTag)
              ends == {t \in c0..Len(text) : OccursAt(text, Fence, SkipSpace(text, t))}
          IN  IF ends = {} THEN [found |-> FALSE, group |-> <<>>]
              ELSE [found |-> TRUE, group |-> SubSeq(text, c0, Min(ends) - 1)]

\* re.search(r'\[\s*\{.*\}\s*\]', text, re.DOTALL): the leftmost "[" followed
\* by whitespace and "{", up to the last "}" that is followed by whitespace
\* and "]".  Returns group(0), or <<>> when there is no match.
ArrayCloser(text, c) ==
    /\ text[c] = "}"
    /\ SkipSpace(text, c + 1) <= Len(text)
    /\ text[SkipSpace(text, c + 1)] = "]"
ArrayOfObjects(text) ==
    LET closers == {c \in 1..Len(text) : ArrayCloser(text, c)}
        starts == {b \in 1..Len(text) :
                      /\ text[b] = "["
                      /\ SkipSpace(text, b + 1) <= Len(text)
                      /\ text[SkipSpace(text, b + 1)] = "{"
                      /\ \E c \in closers : c > SkipSpace(text, b + 1)}
    IN  IF starts = {} THEN <<>>
        ELSE SubSeq(text, Min(starts), SkipSpace(text, Max(closers) + 1))

ExtractJsonFromMarkdown(text) ==
    LET matches == FirstFencedBlock(text)
        array_matches == ArrayOfObjects(text)
    IN  IF matches.found
        THEN Strip(matches.group)
        ELSE IF /\ Contains(text, <<"[">>)
                /\ Contains(text, <<"]">>)
                /\ array_matches # <<>>
             THEN array_matches
             ELSE text

-----------------------------------------------------------------------------
(* LLMOutputParser.parse_faq_response *)

\* "思考過程" and "思考過程:"
ThoughtMarker == <<"U+601D", "U+8003", "U+904E", "U+7A0B">>
ThoughtSplit == ThoughtMarker \o <<":">>
\* "得られます", and the two texts the pattern 得られます[：:] matches
ObtainedMarker == <<"U+5F97", "U+3089", "U+308C", "U+307E", "U+3059">>
ObtainedSplits == {ObtainedMarker \o <<":">>, ObtainedMarker \o <<"U+FF1A">>}

\* text.split(d)[1] (re.split for several delimiters of one length): the text
\* between the first delimiter and the next one after it, or the end.
\* many is FALSE when the split has a single part.
SecondPart(text, delims) ==
    LET n == Len(CHOOSE d \in delims : TRUE)
        occ == UNION {Occurrences(text, d) : d \in delims}
    IN  IF occ = {} THEN [many |-> FALSE, part |-> <<>>]
        ELSE
          LET first == Min(occ)
              later == {i \in occ : i >= first + n}
          IN  [many |-> TRUE,
               part |-> SubSeq(text, first + n,
                               IF later = {} THEN Len(text) ELSE Min(later) - 1)]

\* the local json_text after the search on the whole response
CandidateWhole(response) == ExtractJsonFromMarkdown(response)

\* the local json_text after the "思考過程" step
CandidateAfterThought(response) ==
    LET found == CandidateWhole(response)
        thought_parts == SecondPart(response, {ThoughtSplit})
    IN  IF /\ Contains(response, ThoughtMarker)
           /\ ~Contains(found, Fence \o JsonTag)
           /\ thought_parts.many
        THEN ExtractJsonFromMarkdown(thought_parts.part)
        ELSE found

\* the local json_text after the "得られます" step: the text handed to json.loads
Candidate(response) ==
    LET found == CandidateAfterThought(response)
        parts == SecondPart(response, ObtainedSplits)
    IN  IF /\ Contains(response, ObtainedMarker)
           /\ ~Contains(found, Fence \o JsonTag)
           /\ parts.many
        THEN ExtractJsonFromMarkdown(parts.part)
        ELSE found

\* isinstance(faq, dict) and "question" in faq and "answer" in faq
HasKey(members, key) == \E k \in 1..Len(members) : members[k].key = key
IsValidFaq(v) ==
    /\ v.type = "object"
    /\ HasKey(v.members, <<"q", "u", "e", "s", "t", "i", "o", "n">>)
    /\ HasKey(v.members, <<"a", "n", "s", "w", "e", "r">>)

\* a variant of TryParseFaqResponse: an element that is not a valid FAQ is an
\* error instead of being skipped
TryParseFaqResponseStrict(response) ==
    LET loaded == JsonLoads(Candidate(response))
    IN  IF ~loaded.ok THEN [raised |-> TRUE, result |-> <<>>]
        ELSE IF loaded.val.type # "array" THEN [raised |-> TRUE, result |-> <<>>]
        ELSE IF \E k \in 1..Len(loaded.val.items) : ~IsValidFaq(loaded.val.items[k])
             THEN [raised |-> TRUE, result |-> <<>>]
             ELSE [raised |-> FALSE, result |-> loaded.val.items]

\* the body of the try block: raised is TRUE when it ends in an exception
\* (json.JSONDecodeError from json.loads, ValueError for a non-list)
TryParseFaqResponse(response) ==
    LET loaded == JsonLoads(Candidate(response))
    IN  IF ~loaded.ok THEN [raised |-> TRUE, result |-> <<>>]
        ELSE IF loaded.val.type # "array" THEN [raised |-> TRUE, result |-> <<>>]
        ELSE [raised |-> FALSE, result |-> SelectSeq(loaded.val.items, IsValidFaq)]

\* a character print() cannot write to a UTF-8 sys.stdout: a lone surrogate
\* (UnicodeEncodeError, "surrogates not allowed")
LoneSurrogate == "U+D800"
Encodable(c) == c # LoneSurrogate
\* the except clause prints llm_response[:100]
PreviewLen == 100
\* the except clause: two calls of print, the second one of the first
\* PreviewLen characters of the response; raised is TRUE when print raises
HandlerRaises(response) ==
    \E i \in 1..Len(response) : i <= PreviewLen /\ ~Encodable(response[i])

\* try: ... except Exception as e: print(...); print(...); return []
ParseFaqResponse(response) ==
    LET body == TryParseFaqResponse(response)
    IN  IF body.raised
        THEN [raised |-> HandlerRaises(response), result |-> <<>>]
        ELSE body

-----------------------------------------------------------------------------
(* PDFProcessor._split_into_chunks *)

\* s.split(d): the parts of s between the occurrences of d, left to right
RECURSIVE Split(_, _)
Split(s, d) ==
    LET occ == Occurrences(s, d)
    IN  IF occ = {} THEN <<s>>
        ELSE <<SubSeq(s, 1, Min(occ) - 1)>>
             \o Split(SubSeq(s, Min(occ) + Len(d), Len(s)), d)

\* a variant of Chunk: every chunk is tagged with the first page
ChunkFirstPage(page_num, text) ==
    [page_num |-> 1, text |-> text, char_count |-> Len(text)]

\* {"page_num": page_num, "text": text, "char_count": len(text)}
Chunk(page_num, text) ==
    [page_num |-> page_num, text |-> text, char_count |-> Len(text)]

\* a variant of WordLoop: on overflow the buffer is replaced by the word
\* without being appended to result_chunks
RECURSIVE WordLoopDropsBuffer(_, _, _, _, _)
WordLoopDropsBuffer(words, i, st, page_num, max_size) ==
    IF i > Len(words) THEN st
    ELSE
      LET word == words[i]
          next ==
            IF Len(st.current_chunk) + Len(word) + 1 <= max_size
            THEN [st EXCEPT !.current_chunk =
                     IF st.current_chunk # <<>>
                     THEN st.current_chunk \o <<" ">> \o word
                     ELSE word]
            ELSE [st EXCEPT !.current_chunk = word]
      IN  WordLoopDropsBuffer(words, i + 1, next, page_num, max_size)

\* "for word in words", from word i on, on the loop state
\* [current_chunk, result_chunks]
RECURSIVE WordLoop(_, _, _, _, _)
WordLoop(words, i, st, page_num, max_size) ==
    IF i > Len(words) THEN st
    ELSE
      LET word == words[i]
          next ==
            IF Len(st.current_chunk) + Len(word) + 1 <= max_size
            THEN [st EXCEPT !.current_chunk =
                     IF st.current_chunk # <<>>
                     THEN st.current_chunk \o <<" ">> \o word
                     ELSE word]
            ELSE [current_chunk |-> word,
                  result_chunks |-> Append(st.result_chunks,
                                           Chunk(page_num, st.current_chunk))]
      IN  WordLoop(words, i + 1, next, page_num, max_size)

\* a variant of ParaStep: the packing test forgets the two characters of the
\* separator
ParaStepNoSeparator(st, para, page_num, max_size) ==
    IF Len(st.current_chunk) + Len(para) <= max_size
    THEN [st EXCEPT !.current_chunk =
             IF st.current_chunk # <<>>
             THEN st.current_chunk \o <<"\n", "\n">> \o para
             ELSE para]
    ELSE
      LET flushed ==
            IF st.current_chunk # <<>>
            THEN Append(st.result_chunks, Chunk(page_num, st.current_chunk))
            ELSE st.result_chunks
      IN  IF Len(para) > max_size
          THEN WordLoop(Split(para, <<" ">>), 1,
                        [current_chunk |-> <<>>, result_chunks |-> flushed],
                        page_num, max_size)
          ELSE [current_chunk |-> para, result_chunks |-> flushed]

\* one iteration of "for para in paragraphs"
ParaStep(st, para, page_num, max_size) ==
    IF Len(st.current_chunk) + Len(para) + 2 <= max_size
    THEN [st EXCEPT !.current_chunk =
             IF st.current_chunk # <<>>
             THEN st.current_chunk \o <<"\n", "\n">> \o para
             ELSE para]
    ELSE
      LET flushed ==
            IF st.current_chunk # <<>>
            THEN Append(st.result_chunks, Chunk(page_num, st.current_chunk))
            ELSE st.result_chunks
      IN  IF Len(para) > max_size
          THEN WordLoop(Split(para, <<" ">>), 1,
                        [current_chunk |-> <<>>, result_chunks |-> flushed],
                        page_num, max_size)
          ELSE [current_chunk |-> para, result_chunks |-> flushed]

RECURSIVE ParaLoop(_, _, _, _, _)
ParaLoop(paragraphs, i, st, page_num, max_size) ==
    IF i > Len(paragraphs) THEN st
    ELSE ParaLoop(paragraphs, i + 1,
                  ParaStep(st, paragraphs[i], page_num, max_size),
                  page_num, max_size)

\* a variant of PageStep: what is left in the buffer at the end of the page
\* is not appended
PageStepNoFlush(emitted, page_chunk, max_size) ==
    IF Len(page_chunk.text) <= max_size
    THEN Append(emitted, Chunk(page_chunk.page_num, page_chunk.text))
    ELSE ParaLoop(Split(page_chunk.text, <<"\n", "\n">>), 1,
                  [current_chunk |-> <<>>, result_chunks |-> emitted],
                  page_chunk.page_num, max_size).result_chunks

\* one iteration of "for page_chunk in page_chunks" on result_chunks
PageStep(emitted, page_chunk, max_size) ==
    IF Len(page_chunk.text) <= max_size
    THEN Append(emitted, Chunk(page_chunk.page_num, page_chunk.text))
    ELSE
      LET st == ParaLoop(Split(page_chunk.text, <<"\n", "\n">>), 1,
                         [current_chunk |-> <<>>, result_chunks |-> emitted],
                         page_chunk.page_num, max_size)
      IN  IF st.current_chunk # <<>>
          THEN Append(st.result_chunks, Chunk(page_chunk.page_num, st.current_chunk))
          ELSE st.result_chunks

RECURSIVE PageLoop(_, _, _, _)
PageLoop(pages, i, emitted, max_size) ==
    IF i > Len(pages) THEN emitted
    ELSE PageLoop(pages, i + 1, PageStep(emitted, pages[i], max_size), max_size)

SplitIntoChunks(pages, max_size) == PageLoop(pages, 1, <<>>, max_size)

-----------------------------------------------------------------------------
(* Inputs *)

SourceTypes == {"pdf", "slack"}
\* source_url: absent (None or "") or a URL
SourceUrls == {<<>>, <<"u">>}

\* "how do I reset my password"
ResetPasswordEn ==
    <<"h", "o", "w", " ", "d", "o", " ", "I", " ", "r", "e", "s", "e", "t", " ",
      "m", "y", " ", "p", "a", "s", "s", "w", "o", "r", "d">>
\* "パスワードをリセットする方法は"
ResetPasswordJa ==
    <<"U+30D1", "U+30B9", "U+30EF", "U+30FC", "U+30C9", "U+3092", "U+30EA",
      "U+30BB", "U+30C3", "U+30C8", "U+3059", "U+308B", "U+65B9", "U+6CD5",
      "U+306F">>

\* questions longer than MaxQuestionLen: with a comma inside, without any
\* punctuation, and ending in the full-width question mark
LongQuestionComma == Rep("a", 60) \o <<",", " ">> \o Rep("b", 60) \o <<"?">>
LongQuestionPlain == Rep("a", MaxQuestionLen + 1)
LongQuestionWide == Rep("a", MaxQuestionLen) \o <<FullWidthQuestionMark>>

\* short questions: empty, blank, lower-case without mark, with mark, with
\* surrounding blanks, "いつ" (an interrogative), "Q？"
ShortQuestions ==
    { <<>>, <<" ">>, <<"q">>, <<"Q", "?">>, <<" ", "q", "?", " ">>,
      <<"U+3044", "U+3064">>, <<"Q", FullWidthQuestionMark>> }

Questions ==
    ShortQuestions
    \cup {ResetPasswordEn, ResetPasswordJa}
    \cup {LongQuestionComma, LongQuestionPlain, LongQuestionWide}

\* answers: empty, blank, "A", "Done!", "Yes.", "Yes, ok", "Yes, No, ok",
\* "はい、何", "A。", "参照" (a source-reference term), " a "
Answers ==
    { <<>>, <<" ">>, <<"A">>, <<"D", "o", "n", "e", "!">>,
      <<"Y", "e", "s", ".">>, <<"Y", "e", "s", ",", " ", "o", "k">>,
      <<"Y", "e", "s", ",", "N", "o", ",", "o", "k">>,
      <<"U+306F", "U+3044", "U+3001", "U+4F55">>,
      <<"A", IdeographicFullStop>>, <<"U+53C2", "U+7167">>, <<" ", "a", " ">> }

\* the entries handed to FAQPostProcessor.process
PostQuestions ==
    { <<>>, <<" ">>, <<"q">>, <<"Q", "?">>, LongQuestionComma, LongQuestionWide }
PostAnswers ==
    { <<>>, <<" ">>, <<"A">>, <<"D", "o", "n", "e", "!">>, <<"Y", "e", "s", ".">> }
PostFaqs == [question : PostQuestions, answer : PostAnswers]

SeqsUpTo(S, n) == UNION {[1..k -> S] : k \in 0..n}

\* the texts of the deduplication check: every slice of a text of
\* MaxQuestionChars distinct letters (a slice of n >= 3 letters has n - 2
\* 3-grams), and texts of one repeated letter (a single 3-gram)
BaseQuestion == [i \in 1..MaxQuestionChars |-> LowerLetters[((i - 1) % 26) + 1]]
DedupQuestions ==
    {SubSeq(BaseQuestion, i, j) : i \in 1..(MaxQuestionChars + 1), j \in 0..MaxQuestionChars}
    \cup {Rep("a", 4), Rep("a", 5)}
\* "x", "y", "zz"
DedupAnswers == { <<"x">>, <<"y">>, <<"z", "z">> }
DedupFaqs == [question : DedupQuestions, answer : DedupAnswers]

\* the questions of the deduplication loop: long slices of BaseQuestion,
\* which are pairwise similar to different degrees (some above 0.70, some
\* below, some equally similar to two others), and a question of two
\* characters, which has no 3-gram
LoopQuestions ==
    { SubSeq(BaseQuestion, 1, MaxQuestionChars - 2),
      SubSeq(BaseQuestion, 1, MaxQuestionChars),
      SubSeq(BaseQuestion, 2, MaxQuestionChars - 1),
      SubSeq(BaseQuestion, 2, MaxQuestionChars),
      SubSeq(BaseQuestion, 3, MaxQuestionChars),
      <<"a", "?">> }
LoopFaqs == [question : LoopQuestions, answer : DedupAnswers]

\* model responses are built from these pieces
\* [{"question":"Q1","answer":"A1"}]
PayloadOne ==
    <<"[", "{", "\"", "q", "u", "e", "s", "t", "i", "o", "n", "\"", ":", "\"", "Q", "1", "\"", ",",
      "\"", "a", "n", "s", "w", "e", "r", "\"", ":", "\"", "A", "1", "\"", "}", "]">>
\* [{"answer":"A2","question":"Q2"}, {"question":"Q3"}, 1, {"question":"Q4","answer":"A4"}]
PayloadMixed ==
    <<"[", "{", "\"", "a", "n", "s", "w", "e", "r", "\"", ":", "\"", "A", "2", "\"", ",",
      "\"", "q", "u", "e", "s", "t", "i", "o", "n", "\"", ":", "\"", "Q", "2", "\"", "}", ",", " ",
      "{", "\"", "q", "u", "e", "s", "t", "i", "o", "n", "\"", ":", "\"", "Q", "3", "\"", "}", ",", " ",
      "1", ",", " ",
      "{", "\"", "q", "u", "e", "s", "t", "i", "o", "n", "\"", ":", "\"", "Q", "4", "\"", ",",
      "\"", "a", "n", "s", "w", "e", "r", "\"", ":", "\"", "A", "4", "\"", "}", "]">>
\* {"question":"Q1","answer":"A1"} : an object, not an array
PayloadObject == SubSeq(PayloadOne, 2, Len(PayloadOne) - 1)
\* [{"question":"Q1", : malformed
PayloadBroken == SubSeq(PayloadOne, 1, 18)
Payloads == {PayloadOne, PayloadMixed, PayloadObject, PayloadBroken}

\* ```json\n<payload>\n```   and   ```<payload>```
FencedJson(payload) == Fence \o JsonTag \o <<"\n">> \o payload \o <<"\n">> \o Fence
FencedPlain(payload) == Fence \o payload \o Fence

\* "Sure. " (prose), "思考過程", "思考過程:", "得られます：", a newline, a
\* lone surrogate
Prose == <<"S", "u", "r", "e", ".", " ">>
Segments ==
    Payloads
    \cup {FencedJson(x) : x \in Payloads}
    \cup {FencedPlain(PayloadOne)}
    \cup {Prose, ThoughtMarker, ThoughtSplit, ObtainedMarker \o <<"U+FF1A">>, <<"\n">>,
          <<LoneSurrogate>>}

RECURSIVE Concat(_)
Concat(ss) == IF ss = <<>> THEN <<>> ELSE Head(ss) \o Concat(Tail(ss))

\* the shapes of a document of several pages: "a" stands for a letter,
\* PageBreak separates the pages
PageBreak == "PAGE"
DocShapes == SeqsUpTo({"a", " ", "\n", PageBreak}, MaxDocLen)
\* the i-th character of a document, the letters made pairwise distinct
Letterize(shape) ==
    [i \in 1..Len(shape) |->
        IF shape[i] = "a" THEN LowerLetters[((i - 1) % 26) + 1] ELSE shape[i]]
\* the pages of a document, numbered from 1 as extract_text numbers them
PagesOf(doc) ==
    LET texts == Split(doc, <<PageBreak>>)
    IN  [i \in 1..Len(texts) |-> [page_num |-> i, text |-> texts[i]]]

-----------------------------------------------------------------------------
(* PDFTextProcessor.process *)

\* the value None, which is no str: a one-element sequence whose element is
\* no character
NoneText == <<"None">>
\* the argument has the methods of str (split, strip, ...)
IsText(v) == v # NoneText

\* the first position from i on that holds no digit (regex \d+, greedy)
RECURSIVE SkipDigits(_, _)
SkipDigits(s, i) ==
    IF i <= Len(s) /\ s[i] \in Digits THEN SkipDigits(s, i + 1) ELSE i

\* the circled digits of the regex class [①-⑩]
CircledDigits ==
    {"U+2460", "U+2461", "U+2462", "U+2463", "U+2464", "U+2465", "U+2466",
     "U+2467", "U+2468", "U+2469"}
\* the characters of the model that the regex class \w matches
IsWordChar(c) ==
    IsAsciiAlnum(c) \/ c = "_" \/ IsJapanese(c) \/ c \in CircledDigits
\* c.isdigit() on the characters of the model: true of the circled digits
\* too, which the regex class \d does not match
IsDigit(c) == c \in Digits \cup CircledDigits
HeaderMaxLen == 50
\* line 41: the characters a header does not end with
HeaderEndings == {",", ".", "U+3001", "U+3002"}

\* lines 38-42: a short non-blank line followed by a blank line or by a line
\* that starts with a digit, and that does not end with punctuation.  The
\* conjuncts are evaluated left to right, as Python's "and": a character is
\* read from a text only after the text was found non-empty.
IsShortHeader(lines, i) ==
    LET stripped == Strip(lines[i])
    IN  /\ Len(stripped) < HeaderMaxLen
        /\ stripped # <<>>
        /\ i + 1 <= Len(lines)
        /\ (Strip(lines[i + 1]) = <<>> \/ IsDigit(Strip(lines[i + 1])[1]))
        /\ stripped[Len(stripped)] \notin HeaderEndings

\* the position after the marker that starts at i, 0 without a marker:
\* \d+\. | \d+\- | \d+: | 第\d+章 | [①-⑩]\.
AfterHeaderMarker(line, i) ==
    LET d == SkipDigits(line, i)
        k == SkipDigits(line, i + 1)
    IN  IF d > i /\ d <= Len(line) /\ line[d] \in {".", "-", ":"} THEN d + 1
        ELSE IF /\ i <= Len(line) /\ line[i] = "U+7B2C"
                /\ k > i + 1 /\ k <= Len(line) /\ line[k] = "U+7AE0" THEN k + 1
        ELSE IF /\ i + 1 <= Len(line) /\ line[i] \in CircledDigits
                /\ line[i + 1] = "." THEN i + 2
        ELSE 0

\* re.match(r'^\s*(\d+\.|\d+\-|\d+:|第\d+章|[①-⑩]\.)\s*\w+', line)
IsNumberedHeader(line) ==
    LET m == AfterHeaderMarker(line, SkipSpace(line, 1))
        w == SkipSpace(line, m)
    IN  m # 0 /\ w <= Len(line) /\ IsWordChar(line[w])

\* the bullet characters of the regex class [•\-\*・]
BulletChars == {"U+2022", "-", "*", "U+30FB"}
\* the position after the marker that starts at i, 0 without a marker:
\* [•\-\*・] | \d+\. | [①-⑩]\.?
AfterBulletMarker(line, i) ==
    LET d == SkipDigits(line, i)
    IN  IF i <= Len(line) /\ line[i] \in BulletChars THEN i + 1
        ELSE IF d > i /\ d <= Len(line) /\ line[d] = "." THEN d + 1
        ELSE IF i <= Len(line) /\ line[i] \in CircledDigits
             THEN (IF i + 1 <= Len(line) /\ line[i + 1] = "." THEN i + 2 ELSE i + 1)
        ELSE 0

\* bullet_pattern.match(line): ^\s*([•\-\*・]|\d+\.|[①-⑩]\.?)\s+\w+
IsBullet(line) ==
    LET m == AfterBulletMarker(line, SkipSpace(line, 1))
        w == SkipSpace(line, m)
    IN  m # 0 /\ w > m /\ w <= Len(line) /\ IsWordChar(line[w])

\* result["headers"]: the loop of lines 36-48 from line i on; a line that is
\* a header by both tests is appended twice
RECURSIVE Headers(_, _)
Headers(lines, i) ==
    IF i > Len(lines) THEN <<>>
    ELSE (IF IsShortHeader(lines, i) THEN <<Strip(lines[i])>> ELSE <<>>)
         \o (IF IsNumberedHeader(lines[i]) THEN <<Strip(lines[i])>> ELSE <<>>)
         \o Headers(lines, i + 1)

\* result["bullet_points"]: the loop of lines 53-55 from line i on
RECURSIVE BulletPoints(_, _)
BulletPoints(lines, i) ==
    IF i > Len(lines) THEN <<>>
    ELSE (IF IsBullet(lines[i]) THEN <<Strip(lines[i])>> ELSE <<>>)
         \o BulletPoints(lines, i + 1)

\* result["important_terms"] (lines 57-76): every pattern needs a quotation
\* mark, an asterisk, an underscore, katakana or kanji to match, and the
\* texts of the model hold none of them
ImportantTerms(text) == {}

\* "\n\n=== 文書構造の分析 ===\n"
StructureTitle ==
    <<"\n", "\n", "=", "=", "=", " ", "U+6587", "U+66F8", "U+69CB",
      "U+9020", "U+306E", "U+5206", "U+6790", " ", "=", "=", "=", "\n">>
\* "\n【検出された見出し】\n"
HeadersTitle ==
    <<"\n", "U+3010", "U+691C", "U+51FA", "U+3055", "U+308C", "U+305F",
      "U+898B", "U+51FA", "U+3057", "U+3011", "\n">>
\* "\n【検出された箇条書き/手順】\n"
BulletsTitle ==
    <<"\n", "U+3010", "U+691C", "U+51FA", "U+3055", "U+308C", "U+305F",
      "U+7B87", "U+6761", "U+66F8", "U+304D", "/", "U+624B", "U+9806",
      "U+3011", "\n">>
ShownHeaders == 7
ShownBullets == 7

\* the "- {header}\n" items (dash is TRUE) or "{point}\n" items of the first
\* n entries
RECURSIVE Listing(_, _, _)
Listing(entries, n, dash) ==
    IF entries = <<>> \/ n = 0 THEN <<>>
    ELSE (IF dash THEN <<"-", " ">> ELSE <<>>) \o Head(entries) \o <<"\n">>
         \o Listing(Tail(entries), n - 1, dash)

\* lines 82-97 for a text without important terms
StructureSummary(headers, bullet_points) ==
    StructureTitle
    \o (IF headers # <<>> THEN HeadersTitle \o Listing(headers, ShownHeaders, TRUE) ELSE <<>>)
    \o (IF bullet_points # <<>>
        THEN BulletsTitle \o Listing(bullet_points, ShownBullets, FALSE) ELSE <<>>)

\* the body of the try statement (lines 34-101): text.split raises
\* AttributeError when text is no str; no other step can raise
TryPdfProcess(text) ==
    IF ~IsText(text) THEN [raised |-> TRUE, enhanced_text |-> <<>>]
    ELSE LET lines == Split(text, <<"\n">>)
         IN  [raised |-> FALSE,
              enhanced_text |->
                  text \o StructureSummary(Headers(lines, 1), BulletPoints(lines, 1))]

\* a variant of PdfProcess: the summary is appended to the stripped text
PdfProcessStripped(text) ==
    LET body == TryPdfProcess(text)
    IN  IF body.raised THEN [raised |-> FALSE, failed |-> TRUE, enhanced_text |-> text]
        ELSE [raised |-> FALSE, failed |-> FALSE,
              enhanced_text |-> Strip(text) \o StructureSummary(<<>>, <<>>)]

\* PDFTextProcessor.process: the except clause (lines 103-107) prints the
\* exception, whose message is ASCII, and returns the report with
\* enhanced_text = text.  failed: the except clause was taken.
PdfProcess(text) ==
    LET body == TryPdfProcess(text)
    IN  IF body.raised THEN [raised |-> FALSE, failed |-> TRUE, enhanced_text |-> text]
        ELSE [raised |-> FALSE, failed |-> FALSE, enhanced_text |-> body.enhanced_text]

-----------------------------------------------------------------------------
(* SlackConversationProcessor.process *)

SpeakerMaxLen == 30
\* line.split(':', 1): the text before and the text after the first colon
BeforeColon(line) == SubSeq(line, 1, Min(Occurrences(line, <<":">>)) - 1)
AfterColon(line) == SubSeq(line, Min(Occurrences(line, <<":">>)) + 1, Len(line))
\* ':' in line and len(line.split(':', 1)[0]) < 30
IsSpeakerLine(line) ==
    Occurrences(line, <<":">>) # {} /\ Len(BeforeColon(line)) < SpeakerMaxLen

\* "\n".join(parts)
RECURSIVE JoinLines(_)
JoinLines(parts) ==
    IF parts = <<>> THEN <<>>
    ELSE IF Len(parts) = 1 THEN parts[1]
    ELSE parts[1] \o <<"\n">> \o JoinLines(Tail(parts))

\* "if current_speaker and current_message: structured_convo.append(...)".
\* current_speaker is <<>> for None and for "", which are both falsy.
Flushed(st) ==
    IF st.current_speaker # <<>> /\ st.current_message # <<>>
    THEN Append(st.structured_convo,
                [speaker |-> st.current_speaker,
                 message |-> JoinLines(st.current_message)])
    ELSE st.structured_convo

\* one iteration of "for line in lines" (lines 141-159)
SpeakerStep(st, line) ==
    IF IsSpeakerLine(line)
    THEN [structured_convo |-> Flushed(st),
          current_speaker |-> Strip(BeforeColon(line)),
          current_message |-> <<Strip(AfterColon(line))>>,
          participants |-> st.participants \cup {Strip(BeforeColon(line))}]
    ELSE IF st.current_speaker # <<>>
         THEN [st EXCEPT !.current_message = Append(@, line)]
         ELSE st

RECURSIVE SpeakerLoop(_, _, _)
SpeakerLoop(lines, i, st) ==
    IF i > Len(lines) THEN st
    ELSE SpeakerLoop(lines, i + 1, SpeakerStep(st, lines[i]))

\* lines 136-168: structured_convo and participants of a conversation
Structured(text) ==
    LET st == SpeakerLoop(Split(text, <<"\n">>), 1,
                          [structured_convo |-> <<>>, current_speaker |-> <<>>,
                           current_message |-> <<>>, participants |-> {}])
    IN  [structured_convo |-> Flushed(st), participants |-> st.participants]

\* question_indicators (lines 171-175)
QuestionIndicators ==
    {
     <<"?">>,
     <<"U+FF1F">>,
     <<"h", "o", "w">>,
     <<"w", "h", "a", "t">>,
     <<"w", "h", "e", "n">>,
     <<"w", "h", "e", "r", "e">>,
     <<"w", "h", "y">>,
     <<"w", "h", "o">>,
     <<"w", "h", "i", "c", "h">>,
     <<"c", "o", "u", "l", "d", " ", "y", "o", "u">>,
     <<"c", "a", "n", " ", "y", "o", "u">>,
     <<"U+3069", "U+3046">>,
     <<"U+306A", "U+305C">>,
     <<"U+3069", "U+3053">>,
     <<"U+3044", "U+3064">>,
     <<"U+3060", "U+308C">>,
     <<"U+4F55">>,
     <<"U+6559", "U+3048", "U+3066">>,
     <<"U+304F", "U+3060", "U+3055", "U+3044">>,
     <<"U+3067", "U+304D", "U+307E", "U+3059", "U+304B">>,
     <<"U+3067", "U+304D", "U+308B", "U+FF1F">>,
     <<"U+3067", "U+3059", "U+304B">>}
\* any(q in current["message"].lower() for q in question_indicators)
IsQuestion(message) == \E q \in QuestionIndicators : Contains(Lower(message), q)

\* a variant of QaPairs: a message taken as the answer of a pair is not
\* looked at as a question
RECURSIVE QaPairsSkipAnswer(_, _)
QaPairsSkipAnswer(convo, i) ==
    IF i >= Len(convo) THEN <<>>
    ELSE IF IsQuestion(convo[i].message)
         THEN <<[question_by |-> convo[i].speaker, question |-> convo[i].message,
                 answer_by |-> convo[i + 1].speaker, answer |-> convo[i + 1].message]>>
              \o QaPairsSkipAnswer(convo, i + 2)
         ELSE QaPairsSkipAnswer(convo, i + 1)

\* result["qa_pairs"]: the loop of lines 177-190 from message i on; each pair
\* keeps the number it is printed with
RECURSIVE QaPairs(_, _)
QaPairs(convo, i) ==
    IF i >= Len(convo) THEN <<>>
    ELSE (IF IsQuestion(convo[i].message)
          THEN <<[question_by |-> convo[i].speaker, question |-> convo[i].message,
                  answer_by |-> convo[i + 1].speaker, answer |-> convo[i + 1].message]>>
          ELSE <<>>)
         \o QaPairs(convo, i + 1)

\* str(n) for n >= 0
DecimalDigits == <<"0", "1", "2", "3", "4", "5", "6", "7", "8", "9">>
RECURSIVE Decimal(_)
Decimal(n) ==
    IF n < 10 THEN <<DecimalDigits[n + 1]>>
    ELSE Decimal(n \div 10) \o <<DecimalDigits[(n % 10) + 1]>>

\* "\n\n=== 検出された質問と回答のパターン ===\n"
QaTitle ==
    <<"\n", "\n", "=", "=", "=", " ", "U+691C", "U+51FA", "U+3055",
      "U+308C", "U+305F", "U+8CEA", "U+554F", "U+3068", "U+56DE", "U+7B54",
      "U+306E", "U+30D1", "U+30BF", "U+30FC", "U+30F3", " ", "=", "=", "=",
      "\n">>
\* "\n【質問" and "【回答"
QuestionLabel == <<"\n", "U+3010", "U+8CEA", "U+554F">>
AnswerLabel == <<"U+3010", "U+56DE", "U+7B54">>
\* "】 (" and "): "
LabelOpen == <<"U+3011", " ", "(">>
LabelClose == <<")", ":", " ">>
\* "\n\n=== 会話参加者 ===\n"
ParticipantsTitle ==
    <<"\n", "\n", "=", "=", "=", " ", "U+4F1A", "U+8A71", "U+53C2",
      "U+52A0", "U+8005", " ", "=", "=", "=", "\n">>

\* the two lines appended for the pairs from number i on (lines 198-200)
RECURSIVE QaLines(_, _)
QaLines(pairs, i) ==
    IF i > Len(pairs) THEN <<>>
    ELSE QuestionLabel \o Decimal(i) \o LabelOpen \o pairs[i].question_by
         \o LabelClose \o pairs[i].question \o <<"\n">>
         \o AnswerLabel \o Decimal(i) \o LabelOpen \o pairs[i].answer_by
         \o LabelClose \o pairs[i].answer \o <<"\n">>
         \o QaLines(pairs, i + 1)

\* the orders in which "for participant in result["participants"]" may
\* visit the set: the iteration order of a set of str is not fixed
Orderings(S) ==
    {order \in [1..Cardinality(S) -> S] :
        \A i \in 1..Cardinality(S), j \in 1..Cardinality(S) :
            order[i] = order[j] => i = j}

\* the body of the try statement (lines 134-214): conversation_text.split
\* raises AttributeError when the argument is no str; no other step can raise.
\* order: the order in which the participants are visited.
TrySlackProcess(conversation_text, order) ==
    IF ~IsText(conversation_text)
    THEN [raised |-> TRUE, structured_messages |-> <<>>, qa_pairs |-> <<>>,
          participants |-> {}, enhanced_text |-> <<>>]
    ELSE
      LET found == Structured(conversation_text)
          pairs == QaPairs(found.structured_convo, 1)
      IN  [raised |-> FALSE,
           structured_messages |-> found.structured_convo,
           qa_pairs |-> pairs,
           participants |-> found.participants,
           enhanced_text |->
               conversation_text
               \o (IF pairs # <<>> THEN QaTitle \o QaLines(pairs, 1) ELSE <<>>)
               \o (IF found.participants # {}
                   THEN ParticipantsTitle \o Listing(order, Len(order), TRUE)
                   ELSE <<>>)]

\* the participants of the argument (none when it is no str)
ParticipantsOf(conversation_text) ==
    IF IsText(conversation_text) THEN Structured(conversation_text).participants
    ELSE {}

\* SlackConversationProcessor.process: the except clause (lines 216-220)
\* prints the exception, whose message is ASCII, and returns the report with
\* enhanced_text = conversation_text.  failed: the except clause was taken.
\* The report carries structured_messages, qa_pairs and participants as the
\* body left them (lines 125-131 when split raised).
SlackProcess(conversation_text, order) ==
    LET body == TrySlackProcess(conversation_text, order)
    IN  IF body.raised
        THEN [body EXCEPT !.raised = FALSE, !.enhanced_text = conversation_text]
             @@ [failed |-> TRUE]
        ELSE body @@ [failed |-> FALSE]

-----------------------------------------------------------------------------
(* FAQGenerator.generate_summary and generate_faqs_from_text *)

\* "要約を生成できませんでした。", returned by generate_summary on an exception
SummaryFailed ==
    <<"U+8981", "U+7D04", "U+3092", "U+751F", "U+6210", "U+3067", "U+304D",
      "U+307E", "U+305B", "U+3093", "U+3067", "U+3057", "U+305F", "U+3002">>

\* total_tokens_used = total_tokens, a variant of TokensAfter
TokensAssigned(used, total_tokens) == total_tokens
\* self.total_tokens_used += total_tokens
TokensAfter(used, total_tokens) == used + total_tokens

\* faq.get(key, "") on an element the parser kept
Get(faq, key) ==
    LET hits == {k \in 1..Len(faq.members) : faq.members[k].key = key}
    IN  IF hits = {} THEN JVal("string", <<>>, <<>>, <<>>)
        ELSE faq.members[Min(hits)].value
\* isinstance(v, str), and bool(v) of a decoded JSON value
IsStr(v) == v.type = "string"
Truthy(v) ==
    CASE v.type = "string" -> v.text # <<>>
      [] v.type = "number" -> v.text # <<"0">>
      [] v.type = "array" -> v.items # <<>>
      [] v.type = "object" -> v.members # <<>>
      [] OTHER -> v.type = "true"
\* print(f"Q: {v}") raises UnicodeEncodeError: v is a text with a character
\* stdout cannot encode (the str() of any other value is escaped)
PrintRaises(v) == IsStr(v) /\ \E k \in 1..Len(v.text) : ~Encodable(v.text[k])

\* a variant of AttachMetadata: source_id and source_url are swapped
AttachMetadataSwapped(parsed, st, sid, url) ==
    [i \in 1..Len(parsed) |->
        [question |-> Get(parsed[i], <<"q", "u", "e", "s", "t", "i", "o", "n">>),
         answer |-> Get(parsed[i], <<"a", "n", "s", "w", "e", "r">>),
         source_type |-> st, source_id |-> url, source_url |-> sid]]

\* the loop "for faq in faqs: result.append({...})"
AttachMetadata(parsed, st, sid, url) ==
    [i \in 1..Len(parsed) |->
        [question |-> Get(parsed[i], <<"q", "u", "e", "s", "t", "i", "o", "n">>),
         answer |-> Get(parsed[i], <<"a", "n", "s", "w", "e", "r">>),
         source_type |-> st, source_id |-> sid, source_url |-> url]]

\* FAQPostProcessor.process on entries whose question and answer are decoded
\* JSON values: an entry with a falsy question or answer is skipped, a truthy
\* value that is no str has no strip() (AttributeError)
ProcessValues(result, st, url) ==
    IF \E i \in 1..Len(result) :
          /\ Truthy(result[i].question)
          /\ Truthy(result[i].answer)
          /\ ~(IsStr(result[i].question) /\ IsStr(result[i].answer))
    THEN [raised |-> TRUE, result |-> <<>>]
    ELSE [raised |-> FALSE,
          result |->
              CHOOSE final \in
                  {Process(fs, st, url) :
                      fs \in {[i \in 1..Len(result) |->
                                 [result[i] EXCEPT
                                    !.question = IF IsStr(@) THEN @.text ELSE <<>>,
                                    !.answer = IF IsStr(@) THEN @.text ELSE <<>>]]}} :
                  TRUE]

\* lines 133-162 of generate_faqs_from_text: print the parsed entries, attach
\* the metadata, post-process
FinishFaqs(parsed, st, sid, url) ==
    LET printed == \E i \in 1..Len(parsed) :
                        \/ PrintRaises(Get(parsed[i], <<"q", "u", "e", "s", "t", "i", "o", "n">>))
                        \/ PrintRaises(Get(parsed[i], <<"a", "n", "s", "w", "e", "r">>))
    IN  IF printed THEN [raised |-> TRUE, result |-> <<>>]
        ELSE CHOOSE out \in
                 {ProcessValues(result, st, url) :
                     result \in {AttachMetadata(parsed, st, sid, url)}} : TRUE

\* [{"question":"Q1","answer":"A1"},{"question":"Q2","answer":"A2"}]
PayloadTwo ==
    <<"[", "{", "\"", "q", "u", "e", "s", "t", "i", "o", "n", "\"", ":", "\"", "Q", "1", "\"", ",",
      "\"", "a", "n", "s", "w", "e", "r", "\"", ":", "\"", "A", "1", "\"", "}", ",",
      "{", "\"", "q", "u", "e", "s", "t", "i", "o", "n", "\"", ":", "\"", "Q", "2", "\"", ",",
      "\"", "a", "n", "s", "w", "e", "r", "\"", ":", "\"", "A", "2", "\"", "}", "]">>
\* [{"question":"abcd","answer":"x"},{"question":"abcd","answer":"yy"}]
PayloadDup ==
    <<"[", "{", "\"", "q", "u", "e", "s", "t", "i", "o", "n", "\"", ":", "\"", "a", "b", "c", "d", "\"", ",",
      "\"", "a", "n", "s", "w", "e", "r", "\"", ":", "\"", "x", "\"", "}", ",",
      "{", "\"", "q", "u", "e", "s", "t", "i", "o", "n", "\"", ":", "\"", "a", "b", "c", "d", "\"", ",",
      "\"", "a", "n", "s", "w", "e", "r", "\"", ":", "\"", "y", "y", "\"", "}", "]">>
\* [{"question":1,"answer":"A"}]
PayloadNonStr ==
    <<"[", "{", "\"", "q", "u", "e", "s", "t", "i", "o", "n", "\"", ":", "1", ",",
      "\"", "a", "n", "s", "w", "e", "r", "\"", ":", "\"", "A", "\"", "}", "]">>
\* what the completion service may answer to the FAQ prompt
Completions ==
    {FencedJson(PayloadTwo), PayloadDup, PayloadNonStr, Prose, <<LoneSurrogate>>}

\* LLMOutputParser.parse_faq_response(llm_response) for the text
\* llm_response = content.strip() (line 120) of each of these answers
ParsedCompletions == [content \in Completions |-> ParseFaqResponse(Strip(content))]
\* the same for any content
ParseCompletion(content) ==
    IF content \in Completions THEN ParsedCompletions[content]
    ELSE ParseFaqResponse(Strip(content))

\* lines 129-162: parse the response, then FinishFaqs on the parsed entries
ParseAndFinish(parsed, st, sid, url) ==
    IF parsed.raised
    THEN [raised |-> TRUE, result |-> <<>>, counted |-> TRUE]
    ELSE FinishFaqs(parsed.result, st, sid, url) @@ [counted |-> TRUE]

\* generate_faqs_from_text from the return of the completion request on,
\* without its except clause.  readable is FALSE when reading the response
\* raises before line 123 (message.content is None, count_tokens refuses the
\* text, or the response has no usage).
\* counted: total_tokens_used was increased; raised: an exception ended it.
TryGenerateFaqs(readable, content, st, sid, url) ==
    IF ~readable THEN [raised |-> TRUE, result |-> <<>>, counted |-> FALSE]
    ELSE
      CHOOSE out \in
          {ParseAndFinish(parsed, st, sid, url) :
              parsed \in {ParseCompletion(content)}} : TRUE

\* a variant of GenerateFaqsFromText: no except clause
GenerateFaqsFromTextUncaught(body) ==
    [raised |-> body.raised, failed |-> body.raised,
     result |-> body.result, counted |-> body.counted]

\* generate_faqs_from_text, given the outcome of its try body:
\* "except Exception as e: print(...); return []".  failed: the except clause
\* was taken.
GenerateFaqsFromText(body) ==
    [raised |-> FALSE, failed |-> body.raised,
     result |-> body.result, counted |-> body.counted]

\* the parts of the texts handed to the text processors: "a", "1", "1.",
\* ":", "?", a newline, a space, "a:?", "b:1", and the line "b:?" between
\* two newlines
TextParts ==
    {<<"a">>, <<"1">>, <<"1", ".">>, <<":">>, <<"?">>, <<"\n">>, <<" ">>,
     <<"a", ":", "?">>, <<"b", ":", "1">>, <<"\n", "b", ":", "?", "\n">>}
\* the chunks of a file with n chunks: "c1" on page 1, "c2" on page 2, ...
ChunkNames == <<"1", "2", "3", "4">>
\* the threads of a channel: conversations "c1", "c2", ... with their
\* thread_id and permalink
ChunksOf(st, n) ==
    [i \in 1..n |->
        IF st = "pdf" THEN [page_num |-> i, text |-> <<"c", ChunkNames[i]>>]
        ELSE [thread_id |-> <<"t", ChunkNames[i]>>,
              permalink |-> <<"p", ChunkNames[i]>>,
              text |-> <<"c", ChunkNames[i]>>]]

-----------------------------------------------------------------------------
(* main.update_from_google_drive / update_from_slack: the loop over the     *)
(* chunks of one file (the threads of one channel)                          *)

\* the text the completion service returns for a summary
SummaryText == <<"s", "u", "m">>
\* log[i]: what happened to chunk i so far.  requests: the completion
\* requests sent, in order; failed: generate_faqs_from_text took its except clause; produced:
\* entries it returned; count: what the upload returned
NewEntry == [requests |-> <<>>, failed |-> FALSE, produced |-> 0, count |-> 0]
InLoop == chunk_idx <= Len(chunks)
Summarise == <<chunk_idx, "summary">>
Generate == <<chunk_idx, "faq">>

\* a variant of SummaryRequest: the request is sent and the loop goes on to
\* the FAQ request without waiting for the answer
SummaryRequestAsync ==
    /\ pc = "summary" /\ InLoop
    /\ in_flight' = in_flight \cup {Summarise}
    /\ log' = Append(log, [NewEntry EXCEPT !.requests = <<"summary">>])
    /\ summary' = SummaryFailed
    /\ pc' = "faq"
    /\ UNCHANGED <<auxVars, postVars, normVars, parseVars, chunkVars, structVars,
                   chunks, chunk_idx, source_id, total_tokens_used, reported_tokens,
                   total_faqs, uploaded>>

\* generate_summary, up to client.chat.completions.create
SummaryRequest ==
    /\ pc = "summary" /\ InLoop
    /\ in_flight' = in_flight \cup {Summarise}
    /\ log' = Append(log, [NewEntry EXCEPT !.requests = <<"summary">>])
    /\ pc' = "summary_wait"
    /\ UNCHANGED <<auxVars, postVars, normVars, parseVars, chunkVars, structVars,
                   chunks, chunk_idx, summary, source_id, total_tokens_used, reported_tokens,
                   total_faqs, uploaded>>

\* generate_summary when count_tokens raises before the request is sent
SummaryNotSent ==
    /\ pc = "summary" /\ InLoop
    /\ summary' = SummaryFailed
    /\ log' = Append(log, NewEntry)
    /\ pc' = "faq"
    /\ UNCHANGED <<auxVars, postVars, normVars, parseVars, chunkVars, structVars,
                   chunks, chunk_idx, source_id, total_tokens_used, reported_tokens,
                   total_faqs, in_flight, uploaded>>

\* the usage the returned response reports is added to reported_tokens
\* (usage_reported is FALSE for a response without usage)
ReportedAfter(usage_reported, total_tokens) ==
    IF usage_reported THEN reported_tokens + total_tokens ELSE reported_tokens

\* generate_summary from the return of the request on.  readable is FALSE
\* when reading the response raises before line 61: message.content is None
\* or count_tokens refuses the text (the response reports its usage all the
\* same), or the response has no usage.
SummaryResponse ==
    /\ pc = "summary_wait"
    /\ \E readable \in BOOLEAN, usage_reported \in BOOLEAN, total_tokens \in 0..MaxUsage :
          /\ readable => usage_reported
          /\ summary' = IF readable THEN SummaryText ELSE SummaryFailed
          /\ total_tokens_used' =
                IF readable THEN TokensAfter(total_tokens_used, total_tokens)
                ELSE total_tokens_used
          /\ reported_tokens' = ReportedAfter(usage_reported, total_tokens)
    /\ in_flight' = in_flight \ {Summarise}
    /\ pc' = "faq"
    /\ UNCHANGED <<auxVars, postVars, normVars, parseVars, chunkVars, structVars,
                   chunks, chunk_idx, source_id, total_faqs, uploaded, log>>

\* generate_summary when the request raises
SummaryError ==
    /\ pc = "summary_wait"
    /\ summary' = SummaryFailed
    /\ in_flight' = in_flight \ {Summarise}
    /\ pc' = "faq"
    /\ UNCHANGED <<auxVars, postVars, normVars, parseVars, chunkVars, structVars,
                   chunks, chunk_idx, source_id, total_tokens_used, reported_tokens,
                   total_faqs, uploaded, log>>

\* generate_faqs_from_text, up to client.chat.completions.create
FaqRequest ==
    /\ pc = "faq"
    /\ in_flight' = in_flight \cup {Generate}
    /\ log' = [log EXCEPT ![chunk_idx].requests = Append(@, "faq")]
    /\ pc' = "faq_wait"
    /\ UNCHANGED <<auxVars, postVars, normVars, parseVars, chunkVars, structVars,
                   chunks, chunk_idx, summary, source_id, total_tokens_used, reported_tokens,
                   total_faqs, uploaded>>

\* generate_faqs_from_text when the prompt builder or count_tokens raises
\* before the request is sent: return []
FaqNotSent ==
    /\ pc = "faq"
    /\ faqs' = <<>>
    /\ log' = [log EXCEPT ![chunk_idx].failed = TRUE]
    /\ pc' = "upload"
    /\ UNCHANGED <<auxVars, source_type, source_url, final_faqs, normVars, parseVars,
                   chunkVars, structVars, chunks, chunk_idx, summary,
                   source_id, total_tokens_used, reported_tokens, total_faqs, in_flight,
                   uploaded>>

\* generate_faqs_from_text when the request raises: return []
FaqError ==
    /\ pc = "faq_wait"
    /\ faqs' = <<>>
    /\ in_flight' = in_flight \ {Generate}
    /\ log' = [log EXCEPT ![chunk_idx].failed = TRUE]
    /\ pc' = "upload"
    /\ UNCHANGED <<auxVars, source_type, source_url, final_faqs, normVars, parseVars,
                   chunkVars, structVars, chunks, chunk_idx, summary,
                   source_id, total_tokens_used, reported_tokens, total_faqs, uploaded>>

\* the loop "for faq in faqs: faq["content_chunk"] = ..." of the caller
WithChunkFields(result) ==
    [i \in 1..Len(result) |->
        IF source_type = "pdf"
        THEN result[i] @@ [content_chunk |-> chunks[chunk_idx].text,
                           summary |-> summary,
                           page_num |-> chunks[chunk_idx].page_num]
        ELSE result[i] @@ [content_chunk |-> chunks[chunk_idx].text,
                           summary |-> summary,
                           thread_id |-> chunks[chunk_idx].thread_id,
                           channel_id |-> source_id]]

\* source_id= and source_url= of the call: the file's for a PDF chunk, the
\* thread's for a Slack conversation
CallId == IF source_type = "pdf" THEN source_id ELSE chunks[chunk_idx].thread_id
CallUrl == IF source_type = "pdf" THEN source_url ELSE chunks[chunk_idx].permalink

\* generate_faqs_from_text from the return of the request on, and the
\* caller's loop over the entries it returned.  An exception that leaves
\* generate_faqs_from_text ends the update ("aborted").
FaqResponse ==
    /\ pc = "faq_wait"
    /\ \E readable \in BOOLEAN, content \in Completions :
          \E body \in {TryGenerateFaqs(readable, content, source_type, CallId, CallUrl)} :
          \E out \in {GenerateFaqsFromText(body)} :
              /\ \E usage_reported \in BOOLEAN, total_tokens \in 0..MaxUsage :
                    /\ readable => usage_reported
                    /\ total_tokens_used' =
                          IF out.counted THEN TokensAfter(total_tokens_used, total_tokens)
                          ELSE total_tokens_used
                    /\ reported_tokens' = ReportedAfter(usage_reported, total_tokens)
              /\ faqs' = IF out.raised THEN <<>> ELSE WithChunkFields(out.result)
              /\ log' = [log EXCEPT ![chunk_idx].failed = out.failed,
                                    ![chunk_idx].produced = Len(out.result)]
              /\ pc' = IF out.raised THEN "aborted" ELSE "upload"
    /\ in_flight' = in_flight \ {Generate}
    /\ UNCHANGED <<auxVars, source_type, source_url, final_faqs, normVars, parseVars,
                   chunkVars, structVars, chunks, chunk_idx, summary,
                   source_id, total_faqs, uploaded>>

\* a variant of Upload: the count the upload returns is not added
UploadUncounted ==
    /\ pc = "upload" /\ faqs # <<>>
    /\ \E accepted \in BOOLEAN :
          /\ uploaded' = IF accepted THEN uploaded \o faqs ELSE uploaded
          /\ log' = [log EXCEPT ![chunk_idx].count = IF accepted THEN Len(faqs) ELSE 0]
    /\ chunk_idx' = chunk_idx + 1
    /\ pc' = "summary"
    /\ UNCHANGED <<auxVars, postVars, normVars, parseVars, chunkVars, structVars,
                   chunks, summary, source_id, total_tokens_used, reported_tokens, total_faqs,
                   in_flight>>

\* if faqs: total_faqs += azure_search.upload_pdf_faqs(faqs)
\* upload_pdf_faqs returns len(result), or 0 when the upload raised
Upload ==
    /\ pc = "upload" /\ faqs # <<>>
    /\ \E accepted \in BOOLEAN :
          LET count == IF accepted THEN Len(faqs) ELSE 0
          IN  /\ uploaded' = IF accepted THEN uploaded \o faqs ELSE uploaded
              /\ total_faqs' = total_faqs + count
              /\ log' = [log EXCEPT ![chunk_idx].count = count]
    /\ chunk_idx' = chunk_idx + 1
    /\ pc' = "summary"
    /\ UNCHANGED <<auxVars, postVars, normVars, parseVars, chunkVars, structVars,
                   chunks, summary, source_id, total_tokens_used, reported_tokens, in_flight>>

\* "if faqs:" is false: nothing is uploaded for this chunk
NoUpload ==
    /\ pc = "upload" /\ faqs = <<>>
    /\ chunk_idx' = chunk_idx + 1
    /\ pc' = "summary"
    /\ UNCHANGED <<auxVars, postVars, normVars, parseVars, chunkVars, structVars,
                   chunks, summary, source_id, total_tokens_used, reported_tokens, total_faqs,
                   in_flight, uploaded, log>>

\* the loop is over: return the message with total_faqs
Finish ==
    /\ pc = "summary" /\ ~InLoop
    /\ pc' = "done"
    /\ UNCHANGED <<auxVars, postVars, normVars, parseVars, chunkVars, structVars, genVars>>

-----------------------------------------------------------------------------
(* The state of the operations that are not under study *)

IdlePost == faqs = <<>> /\ source_type = "pdf" /\ source_url = <<>> /\ final_faqs = <<>>
IdleNorm == question = <<>> /\ answer = <<>> /\ q_hist = <<>> /\ a_hist = <<>>
IdleParse ==
    /\ llm_response = <<>>
    /\ json_text = <<>>
    /\ parse_out = [raised |-> FALSE, result |-> <<>>]
IdleChunk == page_chunks = <<>> /\ max_chunk_size = 0 /\ result_chunks = <<>>
IdleStruct ==
    /\ input_text = <<>>
    /\ processed_result = [raised |-> FALSE, failed |-> FALSE, enhanced_text |-> <<>>]
IdleLoop == processed_questions = <<>> /\ unique_faqs = <<>> /\ faq_idx = 1
IdleDrive ==
    /\ files = <<>>
    /\ file_idx = 1
    /\ file_path = 0
    /\ temp_files = {}
    /\ obtained_files = {}
IdleAux == IdleLoop /\ IdleDrive
IdleGen ==
    /\ chunks = <<>>
    /\ chunk_idx = 1
    /\ summary = <<>>
    /\ source_id = <<>>
    /\ total_tokens_used = 0
    /\ reported_tokens = 0
    /\ total_faqs = 0
    /\ in_flight = {}
    /\ uploaded = <<>>
    /\ log = <<>>

-----------------------------------------------------------------------------
(* Normalisation: _improve_question and _improve_answer applied repeatedly *)

InitNormalize ==
    /\ pc = "normalize"
    /\ IdleAux
    /\ question \in Questions
    /\ answer \in Answers
    /\ source_type \in SourceTypes
    /\ source_url \in SourceUrls
    /\ q_hist = <<>>
    /\ a_hist = <<>>
    /\ faqs = <<>>
    /\ final_faqs = <<>>
    /\ IdleParse
    /\ IdleChunk
    /\ IdleStruct
    /\ IdleGen

\* improved = FAQPostProcessor._improve_question(previous result or question)
ApplyImproveQuestion ==
    /\ pc = "normalize"
    /\ Len(q_hist) < MaxApplications
    /\ q_hist' = Append(q_hist, ImproveQuestion(IF q_hist = <<>> THEN question
                                                ELSE q_hist[Len(q_hist)]))
    /\ UNCHANGED <<auxVars, pc, postVars, question, answer, a_hist, parseVars, chunkVars,
                   structVars, genVars>>

\* improved = FAQPostProcessor._improve_answer(previous result or answer, ...)
ApplyImproveAnswer ==
    /\ pc = "normalize"
    /\ Len(a_hist) < MaxApplications
    /\ a_hist' = Append(a_hist, ImproveAnswer(IF a_hist = <<>> THEN answer
                                              ELSE a_hist[Len(a_hist)],
                                              source_type, source_url))
    /\ UNCHANGED <<auxVars, pc, postVars, question, answer, q_hist, parseVars, chunkVars,
                   structVars, genVars>>

NextNormalize == ApplyImproveQuestion \/ ApplyImproveAnswer

SpecNormalize == InitNormalize /\ [][NextNormalize]_vars

-----------------------------------------------------------------------------
(* FAQPostProcessor.process on a list of entries *)

InitProcess ==
    /\ pc = "input"
    /\ IdleAux
    /\ faqs \in SeqsUpTo(PostFaqs, MaxFaqs)
    /\ source_type \in SourceTypes
    /\ source_url \in SourceUrls
    /\ final_faqs = <<>>
    /\ IdleNorm
    /\ IdleParse
    /\ IdleChunk
    /\ IdleStruct
    /\ IdleGen

\* final_faqs = FAQPostProcessor.process(faqs, source_type, source_url)
ProcessCall ==
    /\ pc = "input"
    /\ final_faqs' = Process(faqs, source_type, source_url)
    /\ pc' = "processed"
    /\ UNCHANGED <<auxVars, faqs, source_type, source_url, normVars, parseVars, chunkVars,
                   structVars, genVars>>

NextProcess == ProcessCall

SpecProcess == InitProcess /\ [][NextProcess]_vars

-----------------------------------------------------------------------------
(* FAQPostProcessor._remove_duplicates on two records *)

InitDedupPair ==
    /\ pc = "input"
    /\ IdleAux
    /\ \E first \in DedupFaqs, second \in DedupFaqs : faqs = <<first, second>>
    /\ source_type = "pdf"
    /\ source_url = <<>>
    /\ final_faqs = <<>>
    /\ IdleNorm
    /\ IdleParse
    /\ IdleChunk
    /\ IdleStruct
    /\ IdleGen

\* final_faqs = FAQPostProcessor._remove_duplicates(faqs)
RemoveDuplicatesCall ==
    /\ pc = "input"
    /\ final_faqs' = RemoveDuplicates(faqs)
    /\ pc' = "deduplicated"
    /\ UNCHANGED <<auxVars, faqs, source_type, source_url, normVars, parseVars, chunkVars,
                   structVars, genVars>>

NextDedupPair == RemoveDuplicatesCall

SpecDedupPair == InitDedupPair /\ [][NextDedupPair]_vars

-----------------------------------------------------------------------------
(* FAQPostProcessor._remove_duplicates, one iteration of its loop at a time *)

InitDedupLoop ==
    /\ pc = "loop"
    /\ \E n \in 1..MaxLoopFaqs : faqs \in [1..n -> LoopFaqs]
    /\ IdleDrive
    /\ source_type = "pdf"
    /\ source_url = <<>>
    /\ final_faqs = <<>>
    /\ IdleLoop
    /\ IdleNorm
    /\ IdleParse
    /\ IdleChunk
    /\ IdleStruct
    /\ IdleGen

\* one iteration of "for faq in faqs"
DedupIteration ==
    /\ pc = "loop"
    /\ faq_idx <= Len(faqs)
    /\ \E st \in {DedupStep([processed_questions |-> processed_questions,
                              unique_faqs |-> unique_faqs], faqs[faq_idx])} :
          /\ processed_questions' = st.processed_questions
          /\ unique_faqs' = st.unique_faqs
    /\ faq_idx' = faq_idx + 1
    /\ UNCHANGED <<pc, postVars, normVars, parseVars, chunkVars, structVars, genVars,
                   driveVars>>

\* "return unique_faqs" after the last iteration
DedupReturn ==
    /\ pc = "loop"
    /\ faq_idx > Len(faqs)
    /\ final_faqs' = unique_faqs
    /\ pc' = "deduplicated"
    /\ UNCHANGED <<faqs, source_type, source_url, loopVars, normVars, parseVars,
                   chunkVars, structVars, genVars, driveVars>>

NextDedupLoop == DedupIteration \/ DedupReturn

SpecDedupLoop == InitDedupLoop /\ [][NextDedupLoop]_vars

-----------------------------------------------------------------------------
(* LLMOutputParser.parse_faq_response on a response *)

InitParse ==
    /\ pc = "input"
    /\ IdleAux
    /\ \E ss \in SeqsUpTo(Segments, MaxSegments) : llm_response = Concat(ss)
    /\ json_text = <<>>
    /\ parse_out = [raised |-> FALSE, result |-> <<>>]
    /\ IdlePost
    /\ IdleNorm
    /\ IdleChunk
    /\ IdleStruct
    /\ IdleGen

\* parse_out = LLMOutputParser.parse_faq_response(llm_response)
ParseFaqResponseCall ==
    /\ pc = "input"
    /\ json_text' = Candidate(llm_response)
    /\ parse_out' = ParseFaqResponse(llm_response)
    /\ pc' = "parsed"
    /\ UNCHANGED <<auxVars, llm_response, postVars, normVars, chunkVars,
                   structVars, genVars>>

NextParse == ParseFaqResponseCall

SpecParse == InitParse /\ [][NextParse]_vars

-----------------------------------------------------------------------------
(* PDFProcessor._split_into_chunks on the pages of a document *)

InitChunk ==
    /\ pc = "input"
    /\ IdleAux
    /\ \E shape \in DocShapes : page_chunks = PagesOf(Letterize(shape))
    /\ max_chunk_size \in 1..MaxChunkSize
    /\ result_chunks = <<>>
    /\ IdlePost
    /\ IdleNorm
    /\ IdleParse
    /\ IdleStruct
    /\ IdleGen

\* result_chunks = self._split_into_chunks(page_chunks, max_chunk_size)
SplitIntoChunksCall ==
    /\ pc = "input"
    /\ result_chunks' = SplitIntoChunks(page_chunks, max_chunk_size)
    /\ pc' = "chunked"
    /\ UNCHANGED <<auxVars, page_chunks, max_chunk_size, postVars, normVars, parseVars,
                   structVars, genVars>>

NextChunk == SplitIntoChunksCall

SpecChunk == InitChunk /\ [][NextChunk]_vars

-----------------------------------------------------------------------------
(* PDFProcessor._split_into_chunks with the default max_chunk_size on one   *)
(* page of ExamplePageLen characters made of two paragraphs                 *)

\* def _split_into_chunks(self, page_chunks, max_chunk_size: int = 1000)
DefaultMaxChunkSize == 1000
\* where the first paragraph may hold a space (0: nowhere)
SpacePositions == {0, 101}
\* a paragraph of n characters c with a space at position gap
Paragraph(c, n, gap) == [i \in 1..n |-> IF i = gap THEN " " ELSE c]
\* the page: first paragraph of n characters, blank line, second paragraph
TwoParagraphs(n, gap) ==
    Paragraph("a", n, gap) \o <<"\n", "\n">> \o Rep("b", ExamplePageLen - 2 - n)

InitChunkExample ==
    /\ pc = "input"
    /\ IdleAux
    /\ \E n \in 1..(ExamplePageLen - 3), gap \in SpacePositions, num \in 1..2 :
          page_chunks = <<[page_num |-> num, text |-> TwoParagraphs(n, gap)]>>
    /\ max_chunk_size = DefaultMaxChunkSize
    /\ result_chunks = <<>>
    /\ IdlePost
    /\ IdleNorm
    /\ IdleParse
    /\ IdleStruct
    /\ IdleGen

SpecChunkExample == InitChunkExample /\ [][NextChunk]_vars

-----------------------------------------------------------------------------
(* All operations *)

-----------------------------------------------------------------------------
(* One call of a text processor *)

InitStructure ==
    /\ pc = "input"
    /\ IdleAux
    /\ source_type \in SourceTypes
    /\ \/ \E parts \in SeqsUpTo(TextParts, MaxTextParts) : input_text = Concat(parts)
       \/ input_text = NoneText
    /\ processed_result = [raised |-> FALSE, failed |-> FALSE, enhanced_text |-> <<>>]
    /\ faqs = <<>> /\ source_url = <<>> /\ final_faqs = <<>>
    /\ IdleNorm
    /\ IdleParse
    /\ IdleChunk
    /\ IdleGen

\* processed_result = PDFTextProcessor.process(text)
PdfProcessCall ==
    /\ pc = "input" /\ source_type = "pdf"
    /\ processed_result' = PdfProcess(input_text)
    /\ pc' = IF processed_result'.raised THEN "raised" ELSE "structured"
    /\ UNCHANGED <<auxVars, input_text, postVars, normVars, parseVars, chunkVars, genVars>>

\* processed_result = SlackConversationProcessor.process(text)
SlackProcessCall ==
    /\ pc = "input" /\ source_type = "slack"
    /\ \E order \in Orderings(ParticipantsOf(input_text)) :
          processed_result' = SlackProcess(input_text, order)
    /\ pc' = IF processed_result'.raised THEN "raised" ELSE "structured"
    /\ UNCHANGED <<auxVars, input_text, postVars, normVars, parseVars, chunkVars, genVars>>

NextStructure == PdfProcessCall \/ SlackProcessCall

SpecStructure == InitStructure /\ [][NextStructure]_vars

-----------------------------------------------------------------------------
(* The update over the chunks of a file / the threads of a channel *)

\* file["id"] / channel_id, and file["webViewLink"]
BatchSources == {"pdf", "slack"}
FileId == <<"i", "d">>
FileUrl == <<"u">>
InitBatch ==
    /\ pc = "summary"
    /\ IdleAux
    /\ source_type \in BatchSources
    /\ \E n \in 0..MaxChunks : chunks = ChunksOf(source_type, n)
    /\ source_id = FileId
    /\ source_url = FileUrl
    /\ faqs = <<>> /\ final_faqs = <<>>
    /\ IdleNorm /\ IdleParse /\ IdleChunk /\ IdleStruct
    /\ chunk_idx = 1 /\ summary = <<>>
    /\ total_tokens_used = 0 /\ reported_tokens = 0 /\ total_faqs = 0
    /\ in_flight = {} /\ uploaded = <<>> /\ log = <<>>

NextBatch ==
    \/ SummaryRequest \/ SummaryNotSent \/ SummaryResponse \/ SummaryError
    \/ FaqRequest \/ FaqNotSent \/ FaqError \/ FaqResponse
    \/ Upload \/ NoUpload \/ Finish

SpecBatch == InitBatch /\ [][NextBatch]_vars

-----------------------------------------------------------------------------
(* main.update_from_google_drive: the loop over the files of the folder.   *)
(* The loop over the chunks of a file is SpecBatch; here it is one step.    *)

\* what list_files may return: each file with its id, whether the entry has
\* the key webViewLink, and whether extract_text finds a chunk in it
DriveFiles(n) ==
    {fs \in [1..n -> [id : 1..n, has_link : BOOLEAN, has_chunks : BOOLEAN]] :
        \A i \in 1..n : fs[i].id = i}

InitDrive ==
    /\ pc = "download"
    /\ \E n \in 0..MaxFiles : files \in DriveFiles(n)
    /\ file_idx = 1
    /\ file_path = 0
    /\ temp_files = {}
    /\ obtained_files = {}
    /\ IdleLoop
    /\ IdlePost
    /\ IdleNorm
    /\ IdleParse
    /\ IdleChunk
    /\ IdleStruct
    /\ IdleGen

otherVars ==
    <<loopVars, postVars, normVars, parseVars, chunkVars, structVars, genVars>>

\* "if not files: return ..." (lines 43-44)
NoFiles ==
    /\ pc = "download" /\ files = <<>>
    /\ pc' = "done"
    /\ UNCHANGED <<driveVars, otherVars>>

\* file_path = drive_client.download_file(file["id"]): download_file creates
\* the temporary file (google_drive.py:68), fills it and returns its name.
\* The temporary file of the i-th file is named i.
DownloadFile ==
    /\ pc = "download" /\ file_idx <= Len(files)
    /\ temp_files' = temp_files \cup {file_idx}
    /\ obtained_files' = obtained_files \cup {file_idx}
    /\ file_path' = file_idx
    /\ pc' = "process"
    /\ UNCHANGED <<files, file_idx, otherVars>>

\* download_file when next_chunk raises (google_drive.py:74): the temporary
\* file exists, its name is not returned, and the except clause of
\* update_from_google_drive returns the error message (lines 92-93)
DownloadFails ==
    /\ pc = "download" /\ file_idx <= Len(files)
    /\ temp_files' = temp_files \cup {file_idx}
    /\ pc' = "error"
    /\ UNCHANGED <<files, file_idx, file_path, obtained_files, otherVars>>

\* file["webViewLink"] (line 72) raises KeyError: it is evaluated for the
\* first chunk of a file whose entry has no such key
LinkMissing == files[file_idx].has_chunks /\ ~files[file_idx].has_link

\* lines 54-85: metadata, extraction and the loop over the chunks, none of
\* which lets an exception out (get_document_metadata, extract_text,
\* generate_summary, generate_faqs_from_text and upload_pdf_faqs catch theirs)
ProcessFile ==
    /\ pc = "process" /\ ~LinkMissing
    /\ pc' = "unlink"
    /\ UNCHANGED <<driveVars, otherVars>>

\* the same when file["webViewLink"] raises: the except clause returns the
\* error message (lines 92-93)
ProcessFileRaises ==
    /\ pc = "process" /\ LinkMissing
    /\ pc' = "error"
    /\ UNCHANGED <<driveVars, otherVars>>

\* os.unlink(file_path) (line 88), then the next file
UnlinkFile ==
    /\ pc = "unlink"
    /\ temp_files' = temp_files \ {file_path}
    /\ file_idx' = file_idx + 1
    /\ pc' = "download"
    /\ UNCHANGED <<files, file_path, obtained_files, otherVars>>

\* the loop is over: return the message with the counts (line 90)
ReturnDone ==
    /\ pc = "download" /\ files # <<>> /\ file_idx > Len(files)
    /\ pc' = "done"
    /\ UNCHANGED <<driveVars, otherVars>>

NextDrive ==
    \/ NoFiles \/ DownloadFile \/ DownloadFails
    \/ ProcessFile \/ ProcessFileRaises \/ UnlinkFile \/ ReturnDone

SpecDrive == InitDrive /\ [][NextDrive]_vars

Init ==
    \/ InitNormalize
    \/ InitProcess
    \/ InitDedupPair
    \/ InitDedupLoop
    \/ InitParse
    \/ InitChunk
    \/ InitChunkExample
    \/ InitStructure
    \/ InitBatch
    \/ InitDrive

Next ==
    \/ ApplyImproveQuestion
    \/ ApplyImproveAnswer
    \/ ProcessCall
    \/ RemoveDuplicatesCall
    \/ NextDedupLoop
    \/ ParseFaqResponseCall
    \/ SplitIntoChunksCall
    \/ NextStructure
    \/ NextBatch
    \/ NextDrive

Spec == Init /\ [][Next]_vars

-----------------------------------------------------------------------------
(* Properties of LLMOutputParser.parse_faq_response (SpecParse) *)

\* what json.loads makes of the text handed to it
Loaded == JsonLoads(json_text)
LoadedArray == Loaded.ok /\ Loaded.val.type = "array"

\* an element that is a key-value object with a question and an answer key
KeyQuestion == <<"q", "u", "e", "s", "t", "i", "o", "n">>
KeyAnswer == <<"a", "n", "s", "w", "e", "r">>
IsFaqObject(v) ==
    /\ v.type = "object"
    /\ \E k \in 1..Len(v.members) : v.members[k].key = KeyQuestion
    /\ \E k \in 1..Len(v.members) : v.members[k].key = KeyAnswer

\* C1: parse_faq_response returns a list and never raises; when the text
\* handed to json.loads is not valid JSON, or is valid JSON whose top-level
\* value is not an array, the returned list is empty.
C1_ParseNeverRaises ==
    pc = "parsed" =>
        /\ ~parse_out.raised
        /\ DOMAIN parse_out.result = 1..Len(parse_out.result)
        /\ (~LoadedArray => parse_out.result = <<>>)

\* the first fenced block of the response, and what json.loads makes of it
FirstBlock == FirstFencedBlock(llm_response)
BlockLoaded == JsonLoads(Strip(FirstBlock.group))
BlockIsFaqArray ==
    /\ FirstBlock.found
    /\ BlockLoaded.ok
    /\ BlockLoaded.val.type = "array"
    /\ \A k \in 1..Len(BlockLoaded.val.items) : IsFaqObject(BlockLoaded.val.items[k])

\* C2: when the response contains a fenced block whose content is a JSON
\* array of objects that each have a question and an answer, the result is
\* exactly those objects, in array order (the content of the first fenced
\* block is the candidate).
C2_FencedArrayReturned ==
    (pc = "parsed" /\ BlockIsFaqArray) => parse_out.result = BlockLoaded.val.items

\* C2, the particular case: the response is exactly the fenced block around
\* [{"question":"Q1","answer":"A1"}]; the result has one entry, Q1 / A1
C2_SingleBlockCase ==
    /\ pc = "parsed"
    /\ llm_response = FencedJson(PayloadOne)
    /\ Len(parse_out.result) = 1
    /\ parse_out.result[1].members =
          << [key |-> KeyQuestion, value |-> JVal("string", <<"Q", "1">>, <<>>, <<>>)],
             [key |-> KeyAnswer, value |-> JVal("string", <<"A", "1">>, <<>>, <<>>)] >>

\* C3: when the whole response contains a fenced block, the text handed to
\* json.loads is the content of that block, whether or not the reasoning
\* marker occurs (stated for responses without the "得られます" phrase, whose
\* step comes after the one of the marker).
C3_BlockWinsOverThoughtMarker ==
    (pc = "parsed" /\ FirstBlock.found /\ ~Contains(llm_response, ObtainedMarker))
        => json_text = Strip(FirstBlock.group)

\* C4: when the candidate parses to an array, the result is exactly the
\* elements that are objects with both a question and an answer key, in their
\* original order; the other elements are dropped without failure.
C4_FilterKeepsValidInOrder ==
    (pc = "parsed" /\ LoadedArray) =>
        /\ ~parse_out.raised
        /\ parse_out.result = SelectSeq(Loaded.val.items, IsFaqObject)

\* C4 witness: an array of which some elements were kept and some dropped
C4_Witness ==
    /\ pc = "parsed"
    /\ LoadedArray
    /\ Len(parse_out.result) >= 2
    /\ Len(parse_out.result) < Len(Loaded.val.items)

-----------------------------------------------------------------------------
(* Properties of FAQPostProcessor._remove_duplicates on two records        *)
(* (SpecDedupPair)                                                         *)

\* the 3-gram Jaccard similarity of the two questions is above 0.70:
\* |A & B| / |A u B| > 7/10
PairGrams(i) == {SubSeq(faqs[i].question, k, k + 2) : k \in 1..(Len(faqs[i].question) - 2)}
PairInter == Cardinality(PairGrams(1) \cap PairGrams(2))
PairUnion == Cardinality(PairGrams(1) \cup PairGrams(2))
PairSimilar == PairUnion > 0 /\ 10 * PairInter > 7 * PairUnion

-----------------------------------------------------------------------------
(* Properties of FAQPostProcessor.process (SpecProcess) *)

\* C6: every record returned by process has a non-empty question ending in
\* "?" or the full-width question mark and a non-empty answer ending in "."
\* or the ideographic full stop.
C6_OutputWellFormed ==
    pc = "processed" =>
        \A i \in 1..Len(final_faqs) :
            /\ final_faqs[i].question # <<>>
            /\ final_faqs[i].answer # <<>>
            /\ final_faqs[i].question[Len(final_faqs[i].question)] \in {"?", "U+FF1F"}
            /\ final_faqs[i].answer[Len(final_faqs[i].answer)] \in {".", "U+3002"}

\* an entry whose question and answer both hold something besides whitespace
NotBlank(faq) == Strip(faq.question) # <<>> /\ Strip(faq.answer) # <<>>

\* C7: entries whose question or answer is empty after trimming are dropped:
\* the result is the one of the list without those entries, and no record
\* carries a placeholder for a blank question or answer.
C7_BlankEntriesDropped ==
    pc = "processed" =>
        /\ final_faqs = Process(SelectSeq(faqs, NotBlank), source_type, source_url)
        /\ Len(final_faqs) <= Len(SelectSeq(faqs, NotBlank))

-----------------------------------------------------------------------------
(* Properties of _improve_question and _improve_answer (SpecNormalize) *)

\* C8: normalisation is idempotent: the second application of
\* _improve_question, and of _improve_answer with the same source, returns
\* what the first returned (stated for questions and answers that hold
\* something besides whitespace).
C8_NormalizeIdempotent ==
    /\ (Len(q_hist) >= 2 /\ Strip(question) # <<>> => q_hist[2] = q_hist[1])
    /\ (Len(a_hist) >= 2 /\ Strip(answer) # <<>> => a_hist[2] = a_hist[1])

\* C9: the question "how do I reset my password" is normalised to a text
\* ending in "?", and "パスワードをリセットする方法は" to a text ending in the
\* full-width question mark.
C9_QuestionMarks ==
    /\ (question = ResetPasswordEn /\ q_hist # <<>>) => EndsWith(q_hist[1], "?")
    /\ (question = ResetPasswordJa /\ q_hist # <<>>) => EndsWith(q_hist[1], "U+FF1F")

-----------------------------------------------------------------------------
(* Properties of PDFProcessor._split_into_chunks (SpecChunk) *)

\* C10: every chunk is at most max_chunk_size long, except a chunk that is a
\* single word (no space, no paragraph break inside) longer than
\* max_chunk_size.
C10_ChunkSizeBound ==
    pc = "chunked" =>
        \A i \in 1..Len(result_chunks) :
            \/ Len(result_chunks[i].text) <= max_chunk_size
            \/ /\ ~Contains(result_chunks[i].text, <<" ">>)
               /\ ~Contains(result_chunks[i].text, <<"\n", "\n">>)

\* C10 witness: a page longer than max_chunk_size was split into several
\* chunks, one of them a single word longer than max_chunk_size, another one
\* a non-empty chunk within the bound
C10_Witness ==
    /\ pc = "chunked"
    /\ \E i, j \in 1..Len(result_chunks) :
          /\ result_chunks[i].page_num = result_chunks[j].page_num
          /\ Len(result_chunks[i].text) > max_chunk_size
          /\ result_chunks[j].text # <<>>
          /\ Len(result_chunks[j].text) <= max_chunk_size

\* the characters of a text that are not whitespace, in order
NonSpace(c) == ~IsSpace(c)
Content(text) == SelectSeq(text, NonSpace)
\* the texts of the chunks tagged with page number n, concatenated in the
\* order of emission
RECURSIVE ChunkTexts(_, _, _)
ChunkTexts(emitted, i, n) ==
    IF i > Len(emitted) THEN <<>>
    ELSE (IF emitted[i].page_num = n THEN emitted[i].text ELSE <<>>)
         \o ChunkTexts(emitted, i + 1, n)

\* C11: the texts of the chunks of a page, concatenated in emission order,
\* hold exactly the non-whitespace characters of the page, in the same order.
C11_ContentPreserved ==
    pc = "chunked" =>
        \A p \in 1..Len(page_chunks) :
            Content(ChunkTexts(result_chunks, 1, page_chunks[p].page_num))
                = Content(page_chunks[p].text)

\* C11 witness: a page was split at a paragraph break and at a space; its
\* letters are all there, spread over at least three chunks
C11_Witness ==
    /\ pc = "chunked"
    /\ Len(page_chunks) = 1
    /\ Contains(page_chunks[1].text, <<"\n", "\n">>)
    /\ Contains(page_chunks[1].text, <<" ">>)
    /\ Cardinality({i \in 1..Len(result_chunks) : result_chunks[i].text # <<>>}) >= 3
    /\ Content(ChunkTexts(result_chunks, 1, 1)) = Content(page_chunks[1].text)
    /\ Len(Content(page_chunks[1].text)) >= 3

\* the page with page number n
PageText(n) == page_chunks[CHOOSE p \in 1..Len(page_chunks) : page_chunks[p].page_num = n].text

\* C12: every chunk carries the page number of the page its text came from
\* (its characters are characters of that page only), and the chunks come in
\* page order, those of one page next to each other.
C12_PageTagged ==
    pc = "chunked" =>
        /\ \A i \in 1..Len(result_chunks) :
              /\ \E p \in 1..Len(page_chunks) :
                    page_chunks[p].page_num = result_chunks[i].page_num
              /\ \A k \in 1..Len(result_chunks[i].text) :
                    \/ IsSpace(result_chunks[i].text[k])
                    \/ Contains(PageText(result_chunks[i].page_num),
                                <<result_chunks[i].text[k]>>)
        /\ \A i, j \in 1..Len(result_chunks) :
              i < j => result_chunks[i].page_num <= result_chunks[j].page_num

\* C12 witness: two pages, the first one split into several chunks, the
\* second one with a chunk of its own
C12_Witness ==
    /\ pc = "chunked"
    /\ Len(page_chunks) >= 2
    /\ Cardinality({i \in 1..Len(result_chunks) :
                      result_chunks[i].page_num = 1 /\ result_chunks[i].text # <<>>}) >= 2
    /\ \E i \in 1..Len(result_chunks) :
          result_chunks[i].page_num = 2 /\ Content(result_chunks[i].text) # <<>>

-----------------------------------------------------------------------------
(* Properties of _split_into_chunks on a page of two paragraphs             *)
(* (SpecChunkExample)                                                       *)

\* the paragraphs of the page
PageParagraphs == Split(page_chunks[1].text, <<"\n", "\n">>)
IsTwoParagraphPage ==
    /\ Len(page_chunks) = 1
    /\ Len(page_chunks[1].text) = ExamplePageLen
    /\ Len(PageParagraphs) = 2
    /\ PageParagraphs[1] # <<>>
    /\ PageParagraphs[2] # <<>>
TwoChunksOfThePage ==
    /\ Len(result_chunks) = 2
    /\ result_chunks[1].page_num = page_chunks[1].page_num
    /\ result_chunks[2].page_num = page_chunks[1].page_num

\* no word of the page is longer than max_chunk_size
WordsFit ==
    \A k \in 1..Len(PageParagraphs) :
        LET words == Split(PageParagraphs[k], <<" ">>)
        IN  \A w \in 1..Len(words) : Len(words[w]) <= max_chunk_size

\* C13 as stated: a page of ExamplePageLen characters made of two paragraphs
\* separated by a blank line, chunked with max_chunk_size 1000, gives exactly
\* two chunks, both tagged with the page number of the page (stated for
\* pages none of whose words is longer than max_chunk_size).
C13_TwoChunks ==
    (/\ pc = "chunked"
     /\ IsTwoParagraphPage
     /\ max_chunk_size = DefaultMaxChunkSize
     /\ WordsFit)
        => TwoChunksOfThePage

\* C13 amended: the same when neither paragraph is longer than
\* max_chunk_size.
C13_TwoChunksWhenParagraphsFit ==
    (/\ pc = "chunked"
     /\ IsTwoParagraphPage
     /\ max_chunk_size = DefaultMaxChunkSize
     /\ Len(PageParagraphs[1]) <= max_chunk_size
     /\ Len(PageParagraphs[2]) <= max_chunk_size)
        => TwoChunksOfThePage

\* C13 witness: paragraphs of 600 and 598 characters, the first one of two
\* words, gave the two chunks of 600 and 598 characters
C13_Witness ==
    /\ pc = "chunked"
    /\ IsTwoParagraphPage
    /\ Len(PageParagraphs[1]) = 600
    /\ Contains(PageParagraphs[1], <<" ">>)
    /\ TwoChunksOfThePage
    /\ result_chunks[1].text = PageParagraphs[1]
    /\ result_chunks[2].text = PageParagraphs[2]


\* C14: generate_faqs_from_text never propagates an exception (the update is
\* never ended by one), and a call in which a step failed returns the empty
\* list
C14_NeverPropagates ==
    /\ pc # "aborted"
    /\ (pc = "upload" /\ log[chunk_idx].failed) => faqs = <<>>

\* C14 witness: no summary request was sent for the first chunk, and its FAQ
\* call failed after the response was read and counted (parsing, printing or
\* post-processing raised) and returned the empty list
C14_Witness ==
    /\ pc = "upload" /\ chunk_idx = 1
    /\ summary = SummaryFailed /\ log[1].requests = <<"faq">>
    /\ log[1].failed
    /\ total_tokens_used > 0
    /\ faqs = <<>>


\* C15: every record generate_faqs_from_text returned carries the
\* source_type, source_id and source_url of the call, the records whose answer
\* was replaced during deduplication included
C15_SourceFieldsKept ==
    pc = "upload" =>
        \A i \in 1..Len(faqs) :
            /\ faqs[i].source_type = source_type
            /\ faqs[i].source_id = CallId
            /\ faqs[i].source_url = CallUrl

\* C15 witness: the call for the second Slack conversation returned one
\* record for two entries with the same question, with the longer answer of
\* the second entry, and the conversation's thread_id and permalink
C15_Witness ==
    /\ pc = "upload" /\ source_type = "slack" /\ chunk_idx = 2
    /\ Len(faqs) = 1
    /\ Contains(faqs[1].answer, <<"y", "y">>)
    /\ faqs[1].source_id = <<"t", "2">>
    /\ faqs[1].source_url = <<"p", "2">>


\* the completion request of the call in progress raised
RequestFailed == SummaryError \/ FaqError

\* C16: total_tokens_used never decreases over the calls of generate_summary
\* and generate_faqs_from_text, and a call whose completion request raises
\* leaves it unchanged
C16_TokensMonotone ==
    [][/\ total_tokens_used' >= total_tokens_used
       /\ RequestFailed => total_tokens_used' = total_tokens_used]_vars

\* C16 witness: both calls of the first chunk were counted with the largest
\* usage, and the summary call of the second chunk failed after its request was sent
C16_Witness ==
    /\ chunk_idx = 2 /\ pc = "faq"
    /\ log[2].requests = <<"summary">> /\ summary = SummaryFailed
    /\ total_tokens_used = 2 * MaxUsage


\* the sum of the upload counts of the chunks up to i that produced FAQs
RECURSIVE UploadCounts(_)
UploadCounts(i) ==
    IF i = 0 THEN 0
    ELSE UploadCounts(i - 1) + (IF log[i].produced > 0 THEN log[i].count ELSE 0)

\* C18: a chunk whose FAQ extraction failed contributes no FAQ and does not
\* stop the update: the loop can always go on until every chunk has been
\* processed, and total_faqs is the sum of the upload counts of the chunks
\* that produced FAQs
C18_FailedChunkSkipped ==
    /\ \A i \in 1..Len(log) : log[i].failed => log[i].produced = 0 /\ log[i].count = 0
    /\ total_faqs = UploadCounts(Len(log))
    /\ pc # "done" => ENABLED NextBatch
    /\ pc = "done" => Len(log) = Len(chunks)

\* C18 witness: the extraction of the first chunk failed, the second chunk
\* gave two FAQs that were uploaded, and the update returned a total of two
C18_Witness ==
    /\ pc = "done" /\ Len(chunks) = 2
    /\ log[1].failed
    /\ log[2].produced = 2 /\ log[2].count = 2
    /\ total_faqs = 2


\* C19: deduplication is global over the update: among the records uploaded
\* for all the chunks, no two have questions of similarity above 0.70
C19_GlobalDedup ==
    \A i \in 1..Len(uploaded), j \in 1..Len(uploaded) :
        i < j => ~AboveThreshold(CalculateSimilarity(uploaded[i].question,
                                                     uploaded[j].question))


\* the chunks whose iteration of the loop is over
Finished == {i \in 1..Len(log) : i < chunk_idx}

\* C20 as stated: exactly one completion request is issued per chunk, and no
\* two requests are ever in flight at once
C20_OneCallPerChunk ==
    /\ Cardinality(in_flight) <= 1
    /\ \A i \in 1..Len(log) : Len(log[i].requests) <= 1
    /\ \A i \in Finished : Len(log[i].requests) = 1

\* C20, amended: per chunk at most one summary request and then at most one
\* FAQ request are issued, a request is issued for the chunk in progress
\* only, and no two requests are ever in flight at once
C20_SequentialCalls ==
    /\ Cardinality(in_flight) <= 1
    /\ \A c \in in_flight : c[1] = chunk_idx
    /\ \A i \in 1..Len(log) :
          log[i].requests \in {<<>>, <<"summary">>, <<"faq">>, <<"summary", "faq">>}

\* C20 witness: the summary request of the second chunk is the only one in
\* flight, after the summary request and the FAQ request of the first chunk
C20_Witness ==
    /\ pc = "summary_wait" /\ chunk_idx = 2
    /\ in_flight = {<<2, "summary">>}
    /\ log[1].requests = <<"summary", "faq">>


\* C17: PDFTextProcessor.process and SlackConversationProcessor.process never
\* raise; when a step failed, enhanced_text is the argument; when no step
\* failed, enhanced_text starts with the argument
C17_FailOpen ==
    /\ pc # "raised"
    /\ pc = "structured" =>
          IF processed_result.failed
          THEN processed_result.enhanced_text = input_text
          ELSE StartsWith(processed_result.enhanced_text, input_text)

\* C17 witness: the conversation "a:?" / "b:1" came back followed by the
\* question-and-answer section and the participants
C17_Witness ==
    /\ pc = "structured" /\ source_type = "slack"
    /\ input_text = <<"a", ":", "?", "\n", "b", ":", "1">>
    /\ ~processed_result.failed
    /\ StartsWith(processed_result.enhanced_text, input_text \o QaTitle)
    /\ Contains(processed_result.enhanced_text, ParticipantsTitle)

-----------------------------------------------------------------------------
(* Properties of the loop of FAQPostProcessor._remove_duplicates
   (SpecDedupLoop) *)

\* the candidate of the coming iteration and its similarity to the k-th
\* accepted record
LoopCandidate == faqs[faq_idx]
SimilarityTo(k) == CalculateSimilarity(LoopCandidate.question, unique_faqs[k].question)
SimilarAccepted == {k \in 1..Len(unique_faqs) : AboveThreshold(SimilarityTo(k))}
\* the accepted record of highest similarity, the earliest one on ties
MostSimilar ==
    CHOOSE k \in SimilarAccepted :
        \A j \in SimilarAccepted :
            /\ ~FracGreater(SimilarityTo(j), SimilarityTo(k))
            /\ ~FracGreater(SimilarityTo(k), SimilarityTo(j)) => k <= j
IterationStep == pc = "loop" /\ faq_idx <= Len(faqs) /\ faq_idx' = faq_idx + 1

\* C21: a candidate more than 0.70 similar to an accepted question is merged
\* into the accepted record of highest similarity (the earliest on ties) and
\* not appended: that record's answer becomes the candidate's answer only
\* when the latter is strictly longer; its question and every other accepted
\* record stay as they were.
C21_MergeIntoBest ==
    [][(IterationStep /\ SimilarAccepted # {}) =>
          unique_faqs' =
              [unique_faqs EXCEPT ![MostSimilar].answer =
                   IF Len(LoopCandidate.answer) > Len(@)
                   THEN LoopCandidate.answer ELSE @]]_vars

\* C21 witness: the third record is similar to both accepted records, more
\* so to the second one, and its longer answer went into the second record
C21_Witness ==
    /\ pc = "loop"
    /\ faq_idx = 4
    /\ AboveThreshold(CalculateSimilarity(faqs[3].question, faqs[1].question))
    /\ FracGreater(CalculateSimilarity(faqs[3].question, faqs[2].question),
                   CalculateSimilarity(faqs[3].question, faqs[1].question))
    /\ Len(faqs[3].answer) > Len(faqs[2].answer)
    /\ unique_faqs = <<faqs[1], [faqs[2] EXCEPT !.answer = faqs[3].answer]>>

\* the accepted records: the list being built, and the list returned
AcceptedFaqs == IF pc = "deduplicated" THEN final_faqs ELSE unique_faqs
\* strictly increasing maps from 1..n into 1..m
Increasing(n, m) == {pos \in [1..n -> 1..m] : \A a, b \in 1..n : a < b => pos[a] < pos[b]}

\* C22: deduplication preserves order: the accepted questions are, in order,
\* the questions of input records at increasing positions, every input
\* record read so far that is not at one of these positions is more than
\* 0.70 similar to a record at an earlier one of them (it was merged, so each
\* accepted record stands where the first record of its group stood), and
\* the output is never longer than the input.
C22_OrderPreserving ==
    pc \in {"loop", "deduplicated"} =>
        /\ Len(AcceptedFaqs) <= faq_idx - 1
        /\ faq_idx - 1 <= Len(faqs)
        /\ \E pos \in Increasing(Len(AcceptedFaqs), faq_idx - 1) :
              /\ \A k \in 1..Len(AcceptedFaqs) :
                     AcceptedFaqs[k].question = faqs[pos[k]].question
              /\ \A i \in 1..(faq_idx - 1) :
                     (\A k \in 1..Len(AcceptedFaqs) : pos[k] # i) =>
                         \E k \in 1..Len(AcceptedFaqs) :
                             /\ pos[k] < i
                             /\ AboveThreshold(CalculateSimilarity(
                                    faqs[i].question, faqs[pos[k]].question))

\* C22 witness: of three records with different questions the second was
\* merged into the first, and the third follows the first in the output
C22_Witness ==
    /\ pc = "deduplicated"
    /\ Len(faqs) = 3
    /\ faqs[1].question # faqs[2].question
    /\ AboveThreshold(CalculateSimilarity(faqs[2].question, faqs[1].question))
    /\ Len(final_faqs) = 2
    /\ final_faqs[1].question = faqs[1].question
    /\ final_faqs[2].question = faqs[3].question

\* the 3-gram Jaccard similarity of two questions is at most 0.70
AtMostSeventy(q1, q2) ==
    LET inter == Cardinality(NGrams(q1) \cap NGrams(q2))
        union == Cardinality(NGrams(q1) \cup NGrams(q2))
    IN  union = 0 \/ 10 * inter <= 7 * union

\* C25: after every iteration of the deduplication loop, and in the list
\* returned, any two distinct accepted records have questions whose 3-gram
\* Jaccard similarity is at most 0.70.
C25_AcceptedDissimilar ==
    pc \in {"loop", "deduplicated"} =>
        \A k, j \in 1..Len(AcceptedFaqs) :
            k # j => AtMostSeventy(AcceptedFaqs[k].question, AcceptedFaqs[j].question)

\* C25 witness: three records were read, two are accepted, their questions
\* are exactly 0.70 similar, and the third (similar to the second only) was
\* merged
C25_Witness ==
    /\ pc = "loop"
    /\ faq_idx = 4
    /\ Len(unique_faqs) = 2
    /\ 10 * Cardinality(NGrams(unique_faqs[1].question) \cap NGrams(unique_faqs[2].question))
         = 7 * Cardinality(NGrams(unique_faqs[1].question) \cup NGrams(unique_faqs[2].question))
    /\ unique_faqs[2].question = faqs[2].question
    /\ AtMostSeventy(faqs[3].question, faqs[1].question)
    /\ ~AtMostSeventy(faqs[3].question, faqs[2].question)

-----------------------------------------------------------------------------
(* Identical questions in the output of FAQPostProcessor.process
   (SpecProcess) *)

\* C26: the list returned by process never holds two records with the same
\* question text, whatever the length of the question.
C26_NoIdenticalQuestions ==
    pc = "processed" =>
        \A k, j \in 1..Len(final_faqs) :
            k # j => final_faqs[k].question # final_faqs[j].question

-----------------------------------------------------------------------------
(* The source sentence of FAQPostProcessor._improve_answer (SpecNormalize) *)

\* the text ends with the source sentence of the source type
EndsWithSourceRef(text, st) ==
    LET sentence == SourceRefSentence(st)
    IN  /\ Len(text) >= Len(sentence)
        /\ SubSeq(text, Len(text) - Len(sentence) + 1, Len(text)) = sentence

\* C23: for every source_url, the absent one included, the normalized answer
\* ends with the source sentence of its source type exactly when the answer
\* does not already contain a source-reference term.
C23_SourceSentenceAppended ==
    (pc = "normalize" /\ Len(a_hist) >= 1 /\ Strip(answer) # <<>>) =>
        (EndsWithSourceRef(a_hist[1], source_type)
            <=> ~(\E ref \in SourceRefTerms : Contains(answer, ref)))

-----------------------------------------------------------------------------
(* The length of the question of FAQPostProcessor._improve_question
   (SpecNormalize) *)

\* C28: the question returned by _improve_question is never longer than 100
\* characters.
C28_QuestionAtMostHundred ==
    (pc = "normalize" /\ Len(q_hist) >= 1) => Len(q_hist[1]) <= MaxQuestionLen

-----------------------------------------------------------------------------
(* The chunks of _split_into_chunks (SpecChunk) *)

\* C27: every chunk emitted by the chunker has a non-empty text and a
\* char_count equal to the length of its text.
C27_ChunksNonEmpty ==
    pc = "chunked" =>
        \A i \in 1..Len(result_chunks) :
            /\ result_chunks[i].text # <<>>
            /\ result_chunks[i].char_count = Len(result_chunks[i].text)

-----------------------------------------------------------------------------
(* The question-answer pairs of SlackConversationProcessor.process
   (SpecStructure) *)

\* the turns of the conversation and the positions of the turns that hold an
\* interrogative marker and are followed by another turn
Turns == processed_result.structured_messages
AskedTurns == {i \in 1..(Len(Turns) - 1) : IsQuestion(Turns[i].message)}

-----------------------------------------------------------------------------
(* The token count of FAQGenerator (SpecBatch) *)

\* C29: at every point total_tokens_used equals the sum of the total token
\* usage reported by the completion-service calls that have returned a
\* response since construction.
C29_TokensEqualReported == total_tokens_used = reported_tokens

-----------------------------------------------------------------------------
(* The temporary files of update_from_google_drive (SpecDrive) *)

\* C30: when update_from_google_drive has returned, with the completion
\* message or with an error message, every temporary file whose name
\* download_file returned has been deleted.
C30_TempFilesDeleted ==
    pc \in {"done", "error"} => obtained_files \cap temp_files = {}

====
